---- MODULE Spec2Model ----
(***************************************************************************)
(* Homologation engine of iamed_uao_ml: the encoding of the medication     *)
(* table (services/encoding_service.py), the training of the clustering    *)
(* model and the recommendation query (services/training_service.py), the  *)
(* batch loops built on it (services/search_service.py and                 *)
(* services/homologacion_masiva_service.py) and queries running while a    *)
(* training is in progress.                                                *)
(*                                                                         *)
(* Scores are Python floats, i.e. IEEE-754 binary64 numbers.  They are     *)
(* modelled exactly: a non-negative double x is held as the integer        *)
(* x * 2^60, written in limbs of 15 bits (least significant limb first,    *)
(* no leading zero limb), and every arithmetic operation rounds its exact  *)
(* result to 53 significant bits, ties to even, as the hardware does.      *)
(***************************************************************************)
EXTENDS Integers, Sequences, FiniteSets, TLC

VARIABLES df_input, df_training, modelo, resultado, traza, calculo, lote, conc, enc

vars == <<df_input, df_training, modelo, resultado, traza, calculo, lote, conc, enc>>

\* The variables of the query machine, and those it leaves alone.
vars_consulta == <<df_input, df_training, modelo, resultado, traza>>

fuera_de_consulta == <<calculo, lote, conc, enc>>

\* Python None where a dict is expected, and where a DataFrame is expected
\* (a value that can be compared with every dict, resp. every table).
None == [NoneType |-> TRUE]

NoneDF == <<None>>

(***************************************************************************)
(* Python float arithmetic (binary64), on limb sequences.                  *)
(***************************************************************************)
B == 2^15

Limb(a, i) == IF i <= Len(a) THEN a[i] ELSE 0

Zeros(n) == [i \in 1..n |-> 0]

RECURSIVE Trim(_)
Trim(a) == IF a = <<>> \/ a[Len(a)] # 0 THEN a ELSE Trim(SubSeq(a, 1, Len(a) - 1))

RECURSIVE BAddR(_, _, _, _)
BAddR(a, b, i, c) ==
    IF i > Len(a) /\ i > Len(b)
    THEN IF c = 0 THEN <<>> ELSE <<c>>
    ELSE LET t == Limb(a, i) + Limb(b, i) + c
         IN  <<t % B>> \o BAddR(a, b, i + 1, t \div B)

BAdd(a, b) == BAddR(a, b, 1, 0)

RECURSIVE BMulSmallR(_, _, _, _)
BMulSmallR(a, k, i, c) ==
    IF i > Len(a)
    THEN IF c = 0 THEN <<>> ELSE <<c>>
    ELSE LET t == a[i] * k + c
         IN  <<t % B>> \o BMulSmallR(a, k, i + 1, t \div B)

BMulSmall(a, k) == BMulSmallR(a, k, 1, 0)

RECURSIVE BMulR(_, _, _)
BMulR(a, b, i) ==
    IF i > Len(a) THEN <<>>
    ELSE BAdd(Zeros(i - 1) \o BMulSmall(b, a[i]), BMulR(a, b, i + 1))

BMul(a, b) == Trim(BMulR(a, b, 1))

\* Quotient and remainder of a limb sequence by a small integer 0 < k < B.
RECURSIVE BDivSmallR(_, _, _, _)
BDivSmallR(a, k, i, rem) ==
    IF i = 0 THEN [q |-> <<>>, r |-> rem]
    ELSE LET t    == rem * B + a[i]
             rest == BDivSmallR(a, k, i - 1, t % k)
         IN  [q |-> rest.q \o <<t \div k>>, r |-> rest.r]

BDivSmall(a, k) == BDivSmallR(a, k, Len(a), 0)

\* -1, 0, 1 as a < b, a = b, a > b (both without leading zero limbs).
RECURSIVE BCmpR(_, _, _)
BCmpR(a, b, i) ==
    IF i = 0 THEN 0
    ELSE IF a[i] < b[i] THEN -1
    ELSE IF a[i] > b[i] THEN 1
    ELSE BCmpR(a, b, i - 1)

BCmp(a, b) ==
    IF Len(a) < Len(b) THEN -1
    ELSE IF Len(a) > Len(b) THEN 1
    ELSE BCmpR(a, b, Len(a))

RECURSIVE BitsOf(_)
BitsOf(v) == IF v = 0 THEN 0 ELSE 1 + BitsOf(v \div 2)

BitLen(a) == IF a = <<>> THEN 0 ELSE 15 * (Len(a) - 1) + BitsOf(a[Len(a)])

AddPow2(a, p) == BAdd(a, Zeros(p \div 15) \o <<2^(p % 15)>>)

LowZero(a, s) ==
    /\ \A i \in 1..(s \div 15) : Limb(a, i) = 0
    /\ Limb(a, s \div 15 + 1) % (2^(s % 15)) = 0

ClearLow(a, s) ==
    [i \in 1..Len(a) |->
        IF i <= s \div 15 THEN 0
        ELSE IF i = s \div 15 + 1 THEN a[i] - (a[i] % (2^(s % 15)))
        ELSE a[i]]

BitAt(a, p) == (Limb(a, p \div 15 + 1) \div (2^(p % 15))) % 2

ClearBit(a, p) ==
    [i \in 1..Len(a) |->
        IF i = p \div 15 + 1 /\ BitAt(a, p) = 1 THEN a[i] - 2^(p % 15) ELSE a[i]]

\* Round to nearest, ties to even, at 53 significant bits.  sticky says that
\* the exact value lies strictly above a (a discarded non-zero remainder).
\* a1 is a plus half a unit of the last place kept; the s low bits go, and
\* on a tie the last bit kept is cleared.
RoundTie(a1, s, sticky) ==
    Trim(IF LowZero(a1, s) /\ ~sticky
         THEN ClearBit(ClearLow(a1, s), s)
         ELSE ClearLow(a1, s))

RoundAt(a, s, sticky) ==
    IF s <= 0 THEN a ELSE RoundTie(AddPow2(a, s - 1), s, sticky)

RoundSig(a, sticky) == RoundAt(a, BitLen(a) - 53, sticky)

\* x + y and x * y of two doubles.
FAdd(x, y) == RoundSig(BAdd(x, y), FALSE)

\* A product of two values in units of 2^-60 is in units of 2^-120.
From120(p) == IF p = <<>> THEN <<>> ELSE SubSeq(p, 5, Len(p))

FMul(x, y) == From120(RoundSig(BMul(x, y), FALSE))

\* The double nearest to num / den (a division of two integer-valued
\* doubles, or a decimal literal), in units of 2^-75.
RoundDiv(d) == RoundSig(Trim(d.q), d.r # 0)

FDiv75(num, den) ==
    IF num = 0 THEN <<>> ELSE RoundDiv(BDivSmall(Zeros(5) \o <<num>>, den))

\* Back to units of 2^-60: exact for a double that is not below 2^-7.
From75(q) == IF q = <<>> THEN <<>> ELSE Tail(q)

Float(num, den) == From75(FDiv75(num, den))

FGe(x, y) == BCmp(x, y) >= 0

FLt(x, y) == BCmp(x, y) < 0

\* round(x, 4): the number of ten-thousandths nearest to x (ties to even);
\* the float Python returns is the double nearest to that decimal.
Round4Tie(a1, k) == IF LowZero(a1, 60) /\ k % 2 = 1 THEN k - 1 ELSE k

Round4Half(a1) == Round4Tie(a1, Limb(a1, 5) + B * Limb(a1, 6))

Round4(x) == Round4Half(AddPow2(BMulSmall(x, 10000), 59))

(***************************************************************************)
(* Python str: the categorical columns only need equality and sorted(),    *)
(* so they are TLA+ strings ordered by their place in OrdenStr (Python's   *)
(* string order on the values that occur); PRINCIPIO ACTIVO also needs     *)
(* split() and the substring test, so it is a sequence of characters.      *)
(***************************************************************************)
OrdenStr == <<"Intravenosa", "Jarabe", "M01AE01", "N02BE01", "Oral", "Tableta", "mg">>

PosStr(v) == CHOOSE i \in DOMAIN OrdenStr : OrdenStr[i] = v

StrLt(v, w) == PosStr(v) < PosStr(w)

Paracetamol == <<"P", "a", "r", "a", "c", "e", "t", "a", "m", "o", "l">>

Acetaminofen == <<"A", "c", "e", "t", "a", "m", "i", "n", "o", "f", "e", "n">>

Ibuprofeno == <<"I", "b", "u", "p", "r", "o", "f", "e", "n", "o">>

\* str.split(): the maximal runs of non-blank characters.
RECURSIVE SplitR(_, _, _)
SplitR(s, i, palabra) ==
    IF i > Len(s)
    THEN IF palabra = <<>> THEN <<>> ELSE <<palabra>>
    ELSE IF s[i] = " "
         THEN (IF palabra = <<>> THEN <<>> ELSE <<palabra>>) \o SplitR(s, i + 1, <<>>)
         ELSE SplitR(s, i + 1, Append(palabra, s[i]))

Split(s) == SplitR(s, 1, <<>>)

\* palabra in texto, for two str.
Contiene(texto, palabra) ==
    \E i \in 1..(Len(texto) - Len(palabra) + 1) :
        SubSeq(texto, i, i + Len(palabra) - 1) = palabra

(***************************************************************************)
(* The medication table.  A run works on one input file; its rows are      *)
(* drawn, in any order and each at most once, from Catalogo.               *)
(***************************************************************************)
\* A quantity is a number, a null (None in the dicts polars makes of a row)
\* or the NaN that pandas makes of a null.
PyInt(n) == [int |-> n]

NaN == [float |-> "nan"]

Med(cum, producto, atc, via, principio, forma, cantidad, unidad, valido) ==
    [CUM |-> cum, PRODUCTO |-> producto, ATC |-> atc, VIA_ADMINISTRACION |-> via,
     PRINCIPIO_ACTIVO |-> principio, FORMA_FARMACEUTICA |-> forma,
     CANTIDAD |-> PyInt(cantidad), UNIDAD_MEDIDA |-> unidad, VALIDO |-> valido]

Catalogo ==
    { Med("A-1", "DOLEX", "N02BE01", "Oral", Paracetamol, "Tableta", 500, "mg", 1),
      Med("A-2", "WINADOL", "N02BE01", "Oral", Paracetamol, "Tableta", 500, "mg", 1),
      Med("B-1", "TYLEX", "N02BE01", "Oral", Acetaminofen, "Jarabe", 120, "mg", 0),
      Med("A-3", "ACETA", "N02BE01", "Oral", Acetaminofen, "Tableta", 0, "mg", 1),
      Med("C-1", "PARA IV", "N02BE01", "Intravenosa", Paracetamol, "Tableta", 500, "mg", 1),
      Med("A-1", "ADVIL", "M01AE01", "Oral", Ibuprofeno, "Tableta", 400, "mg", 0) }

\* The rows of the table of a batch run: one valid row has a null quantity.
TablaLote ==
    << Med("A-1", "DOLEX", "N02BE01", "Oral", Paracetamol, "Tableta", 500, "mg", 1),
       Med("A-2", "WINADOL", "N02BE01", "Oral", Paracetamol, "Tableta", 500, "mg", 1),
       [Med("N-1", "GENERICO", "N02BE01", "Oral", Paracetamol, "Tableta", 0, "mg", 1)
           EXCEPT !.CANTIDAD = None],
       Med("C-1", "PARA IV", "N02BE01", "Intravenosa", Paracetamol, "Tableta", 500, "mg", 1),
       Med("D-1", "ADVIL", "M01AE01", "Oral", Ibuprofeno, "Tableta", 400, "mg", 1),
       Med("D-2", "MOTRIN", "M01AE01", "Oral", Ibuprofeno, "Tableta", 400, "mg", 1) >>

CatalogoLote == {TablaLote[i] : i \in DOMAIN TablaLote}

\* Rows whose quantities are close to each other: against R-0 the rows R-1
\* and R-2 score 0.990045 and 0.990005, which round(score, 4) both report
\* as 0.99.
CatalogoRedondeo ==
    { Med("R-0", "DOLEX FORTE", "N02BE01", "Oral", Paracetamol, "Tableta", 20000, "mg", 1),
      Med("R-1", "ACETA 18009", "N02BE01", "Oral", Acetaminofen, "Tableta", 18009, "mg", 1),
      Med("R-2", "ACETA 18001", "N02BE01", "Oral", Acetaminofen, "Tableta", 18001, "mg", 1),
      Med("R-3", "WINADOL FORTE", "N02BE01", "Oral", Paracetamol, "Tableta", 20000, "mg", 1) }

MaxFilas == 3

RECURSIVE Tablas(_)
Tablas(k) ==
    IF k = 0 THEN {<<>>}
    ELSE LET menores == Tablas(k - 1)
         IN  menores \cup
             UNION { { Append(t, m) : m \in Catalogo \ {t[i] : i \in DOMAIN t} } :
                     t \in {u \in menores : Len(u) = k - 1} }

(***************************************************************************)
(* services/encoding_service.py                                            *)
(*                                                                         *)
(* The numeric columns of crear_encoding_numerico (logs, ratio, bin) and   *)
(* score_prob_critica are read by no step that follows and are left out of *)
(* the rows.  Every table has the three critical columns, CANTIDAD and     *)
(* VALIDO; the two important text columns may be missing.                  *)
(***************************************************************************)
\* DataFrame.filter keeps the rows that satisfy a predicate, in their order:
\* SelectSeq.
Columna(df, columna) == {df[i][columna] : i \in DOMAIN df}

ColumnasDeMed ==
    {"CUM", "PRODUCTO", "ATC", "VIA_ADMINISTRACION", "PRINCIPIO_ACTIVO",
     "FORMA_FARMACEUTICA", "CANTIDAD", "UNIDAD_MEDIDA", "VALIDO"}

\* df.columns; a table of no rows is only met with all its columns.
columns(df) == IF Len(df) = 0 THEN ColumnasDeMed ELSE DOMAIN df[1]

\* A null cell of a text column, written as a reserved text that no cell
\* holds (as a one-character sequence where the column holds sequences).
Nulo == "null"

NuloDe(columna) == IF columna = "PRINCIPIO_ACTIVO" THEN <<Nulo>> ELSE Nulo

\* Python's order of str on the sequences of characters that occur.
OrdenChar ==
    <<" ", "A", "C", "I", "P", "a", "b", "c", "e", "f", "i", "l", "m", "n", "o",
      "p", "r", "t", "u">>

PosChar(c) == CHOOSE i \in DOMAIN OrdenChar : OrdenChar[i] = c

RECURSIVE SeqLtR(_, _, _)
SeqLtR(s, t, i) ==
    IF i > Len(s) THEN i <= Len(t)
    ELSE IF i > Len(t) THEN FALSE
    ELSE IF s[i] = t[i] THEN SeqLtR(s, t, i + 1)
    ELSE PosChar(s[i]) < PosChar(t[i])

ValorLt(columna, v, w) ==
    IF columna = "PRINCIPIO_ACTIVO" THEN SeqLtR(v, w, 1) ELSE StrLt(v, w)

\* sorted(valores_unicos) compares None with a str as soon as the list holds
\* a None and anything else: TypeError.
SortedLanza(df, columna) ==
    /\ NuloDe(columna) \in Columna(df, columna)
    /\ Columna(df, columna) # {NuloDe(columna)}

\* Faulty variant: the vocabulary is that of the valid rows alone.
label_map_de_validos(df, columna) ==
    LET valores_validos == {df[i][columna] : i \in {j \in DOMAIN df : df[j].VALIDO = 1}}
    IN  [val \in valores_validos |->
            Cardinality({w \in valores_validos : ValorLt(columna, w, val)})]

\* {val: idx for idx, val in enumerate(sorted(valores_unicos))}
label_map(df, columna) ==
    LET valores_unicos == Columna(df, columna)
    IN  [val \in valores_unicos |->
            Cardinality({w \in valores_unicos : ValorLt(columna, w, val)})]

\* label_map.get(x, -1)
Get(map, x, defecto) == IF x \in DOMAIN map THEN map[x] ELSE defecto

Validos(df) == {i \in DOMAIN df : df[i].VALIDO = 1}

\* df.filter(VALIDO == 1).select(pl.col(columna).unique())
valores_validos(df, columna) == {df[i][columna] : i \in Validos(df)}

\* One row of freq_mapping: the count of the value and count / sum of counts.
FilaFreq(cuenta, suma) == [freq |-> cuenta, prob |-> Float(cuenta, suma)]

\* group_by(columna) on the valid rows.
freq_mapping_validos(df, columna) ==
    [val \in valores_validos(df, columna) |->
        FilaFreq(Cardinality({i \in Validos(df) : df[i][columna] = val}),
                 Cardinality(Validos(df)))]

\* group_by(columna) on all rows.
freq_mapping_total(df, columna) ==
    [val \in Columna(df, columna) |->
        FilaFreq(Cardinality({i \in DOMAIN df : df[i][columna] = val}), Len(df))]

\* What crear_encoding_critico stores under self.encoders[columna].
EncoderCritico(df, columna) ==
    [tipo |-> "CRITICO", label_map |-> label_map(df, columna),
     valores_validos |-> valores_validos(df, columna),
     freq_mapping |-> freq_mapping_validos(df, columna)]

\* What crear_encoding_importante stores under self.encoders[columna].
EncoderImportante(df, columna) ==
    [tipo |-> "IMPORTANTE", label_map |-> label_map(df, columna),
     freq_mapping |-> freq_mapping_total(df, columna)]

\* The left join leaves null where the value has no row in freq_mapping;
\* fill_null(0) then writes 0.
SinFila == [freq |-> 0, prob |-> Float(0, 1)]

\* The four columns a critical variable adds to a row holding x.
ColumnasCritico(columna, x, encoder) ==
    ((columna \o "_label") :> Get(encoder.label_map, x, -1))
    @@ ((columna \o "_es_valido") :> (IF x \in encoder.valores_validos THEN 1 ELSE 0))
    @@ ((columna \o "_freq_validos") :> Get(encoder.freq_mapping, x, SinFila).freq)
    @@ ((columna \o "_prob_validos") :> Get(encoder.freq_mapping, x, SinFila).prob)

\* The three columns an important variable adds to a row holding x.
ColumnasImportante(columna, x, encoder) ==
    ((columna \o "_label") :> Get(encoder.label_map, x, -1))
    @@ ((columna \o "_freq") :> encoder.freq_mapping[x].freq)
    @@ ((columna \o "_prob") :> encoder.freq_mapping[x].prob)

AplicarCritico(df, columna, encoder) ==
    [i \in DOMAIN df |-> df[i] @@ ColumnasCritico(columna, df[i][columna], encoder)]

AplicarImportante(df, columna, encoder) ==
    [i \in DOMAIN df |-> df[i] @@ ColumnasImportante(columna, df[i][columna], encoder)]

crear_encoding_critico(df, columna) ==
    AplicarCritico(df, columna, EncoderCritico(df, columna))

crear_encoding_importante(df, columna) ==
    AplicarImportante(df, columna, EncoderImportante(df, columna))

variables_criticas == <<"ATC", "VIA_ADMINISTRACION", "PRINCIPIO_ACTIVO">>

variables_importantes == <<"FORMA_FARMACEUTICA", "UNIDAD_MEDIDA">>

\* if var in df.columns: df_encoded = self.crear_encoding_critico(df_encoded, var)
SiCritico(df_encoded, presentes, var) ==
    IF var \in presentes THEN crear_encoding_critico(df_encoded, var) ELSE df_encoded

SiImportante(df_encoded, presentes, var) ==
    IF var \in presentes THEN crear_encoding_importante(df_encoded, var) ELSE df_encoded

EncodingCriticas(df) ==
    SiCritico(SiCritico(SiCritico(df, columns(df), variables_criticas[1]),
                        columns(df), variables_criticas[2]),
              columns(df), variables_criticas[3])

aplicar_encoding_completo(df) ==
    SiImportante(SiImportante(EncodingCriticas(df), columns(df), variables_importantes[1]),
                 columns(df), variables_importantes[2])

\* score_validez_critica and es_ideal_homologacion of a row.
\* Faulty variant: the flag is set when any of the three variables is valid.
ValidezCriticaAlguna(fila) ==
    ("score_validez_critica" :>
        (fila.ATC_es_valido + fila.VIA_ADMINISTRACION_es_valido
         + fila.PRINCIPIO_ACTIVO_es_valido))
    @@ ("es_ideal_homologacion" :>
        (IF \/ fila.ATC_es_valido = 1
            \/ fila.VIA_ADMINISTRACION_es_valido = 1
            \/ fila.PRINCIPIO_ACTIVO_es_valido = 1
         THEN 1 ELSE 0))

ValidezCritica(fila) ==
    ("score_validez_critica" :>
        (fila.ATC_es_valido + fila.VIA_ADMINISTRACION_es_valido
         + fila.PRINCIPIO_ACTIVO_es_valido))
    @@ ("es_ideal_homologacion" :>
        (IF /\ fila.ATC_es_valido = 1
            /\ fila.VIA_ADMINISTRACION_es_valido = 1
            /\ fila.PRINCIPIO_ACTIVO_es_valido = 1
         THEN 1 ELSE 0))

\* Faulty variant: the combo key is the ATC label alone.
crear_dataset_combo_solo_atc(df_encoded) ==
    [i \in DOMAIN df_encoded |->
        df_encoded[i]
        @@ ("ATC_VIA_combo" :> ToString(df_encoded[i].ATC_label))
        @@ ValidezCritica(df_encoded[i])]

\* ATC_label.cast(Utf8) + "_" + VIA_label.cast(Utf8), and the validity
\* columns.
crear_dataset_entrenamiento(df_encoded) ==
    [i \in DOMAIN df_encoded |->
        df_encoded[i]
        @@ ("ATC_VIA_combo" :>
               (ToString(df_encoded[i].ATC_label) \o "_" \o
                ToString(df_encoded[i].VIA_ADMINISTRACION_label)))
        @@ ValidezCritica(df_encoded[i])]

\* The variables that are encoded, in the order of their encoding; the run
\* raises when the values of one of them cannot be sorted.
Codificadas(df) ==
    LET Presente(var) == var \in columns(df)
    IN  SelectSeq(variables_criticas \o variables_importantes, Presente)

process_full_encoding_lanza(df) ==
    \E k \in DOMAIN Codificadas(df) : SortedLanza(df, Codificadas(df)[k])

process_full_encoding(df) == crear_dataset_entrenamiento(aplicar_encoding_completo(df))

(***************************************************************************)
(* services/training_service.py: HomologacionClusteringModel               *)
(***************************************************************************)
pesos_jerarquicos ==
    [ATC |-> Float(40, 100), VIA_ADMINISTRACION |-> Float(30, 100),
     FORMA_FARMACEUTICA |-> Float(20, 100), CANTIDAD_SIMILITUD |-> Float(10, 100),
     PRINCIPIO_BONUS |-> Float(0, 100)]

\* The object __init__ leaves: nothing trained.
ModeloNuevo ==
    [df_validos |-> NoneDF, df_referencia |-> NoneDF, combo_clusters |-> <<>>]

EsValido(fila) == fila.VALIDO = 1

Cuenta(df, combo) == Cardinality({i \in DOMAIN df : df[i].ATC_VIA_combo = combo})

\* group_by('ATC_VIA_combo') ... sort('count', descending=True), then the
\* row index is the cluster id.  group_by keeps no order and the sort is on
\* count alone, so combos of equal count may come out in any order: every
\* numbering that is descending in count is a possible outcome.
clustering_por_combo_critico(df_validos) ==
    LET combos == Columna(df_validos, "ATC_VIA_combo")
        k      == Cardinality(combos)
    IN  { combo_clusters \in [combos -> 0..(k - 1)] :
            /\ \A c, d \in combos : c # d => combo_clusters[c] # combo_clusters[d]
            /\ \A c, d \in combos :
                 combo_clusters[c] < combo_clusters[d]
                    => Cuenta(df_validos, c) >= Cuenta(df_validos, d) }

\* clustering_secundario_por_similitud: StandardScaler.fit_transform rejects
\* an array of no rows, so fit raises ValueError before df_referencia is set.
SecundarioFalla(df_validos) == df_validos = <<>>

\* Faulty variant: the combo index is built from every row, not from the valid ones.
fit_sin_filtrar_validos(df) ==
    LET df_validos == SelectSeq(df, EsValido)
    IN  { [df_validos |-> df_validos,
           df_referencia |-> IF SecundarioFalla(df_validos) THEN NoneDF ELSE df,
           combo_clusters |-> combo_clusters] :
          combo_clusters \in clustering_por_combo_critico(df) }

\* fit(df_training): the model objects it can leave behind.
fit(df) ==
    LET df_validos == SelectSeq(df, EsValido)
    IN  { [df_validos |-> df_validos,
           df_referencia |-> IF SecundarioFalla(df_validos) THEN NoneDF ELSE df,
           combo_clusters |-> combo_clusters] :
          combo_clusters \in clustering_por_combo_critico(df_validos) }

\* Faulty variant: the lookup forgets the cum and returns the first row of the table.
\* medicamento.to_pandas().iloc[0].to_dict(): a null quantity comes out as
\* NaN.
APandas(fila) ==
    IF fila.CANTIDAD = None THEN [fila EXCEPT !.CANTIDAD = NaN] ELSE fila

obtener_info_sin_cum(m, cum) ==
    IF m.df_referencia = NoneDF THEN None
    ELSE IF Len(m.df_referencia) = 0 THEN None ELSE APandas(m.df_referencia[1])

obtener_info_medicamento(m, cum) ==
    IF m.df_referencia = NoneDF THEN None
    ELSE LET CumIgual(fila) == fila.CUM = cum
             medicamento == SelectSeq(m.df_referencia, CumIgual)
         IN  IF Len(medicamento) = 0 THEN None ELSE APandas(medicamento[1])

(***************************************************************************)
(* services/training_service.py: SistemaRecomendacionHomologos             *)
(***************************************************************************)
Uno == Float(1, 1)

Cero == Float(0, 1)

Medio == Float(5, 10)

Lit01 == Float(1, 10)

Lit03 == Float(3, 10)

Lit04 == Float(4, 10)

Lit08 == Float(8, 10)

Lit010 == Float(10, 100)

Lit015 == Float(15, 100)

Min(a, b) == IF a <= b THEN a ELSE b

Max(a, b) == IF a >= b THEN a ELSE b

\* The quantity sub-score (step 5 of calcular_score_similitud).
\* Faulty variant: a ratio under 0.5 is scored like one under 0.8.
score_de_ratio_sin_tramo_bajo(ratio) ==
    IF FLt(ratio, Lit08) THEN Lit04 ELSE ratio

score_de_ratio(ratio) ==
    IF FLt(ratio, Medio) THEN Lit01
    ELSE IF FLt(ratio, Lit08) THEN Lit04
    ELSE ratio

\* "cantidad_origen > 0 and cantidad_candidato > 0" raises TypeError when
\* the operand it evaluates is None; "and" does not evaluate its second
\* operand when the first is false.
\* cantidad > 0 for a number or a NaN (every comparison with NaN is False).
EsPositiva(cantidad) == "int" \in DOMAIN cantidad /\ cantidad.int > 0

LanzaTypeError(cantidad_origen, cantidad_candidato) ==
    \/ cantidad_origen = None
    \/ EsPositiva(cantidad_origen) /\ cantidad_candidato = None

score_cantidad(cantidad_origen, cantidad_candidato) ==
    IF EsPositiva(cantidad_origen) /\ EsPositiva(cantidad_candidato)
    THEN score_de_ratio(Float(Min(cantidad_origen.int, cantidad_candidato.int),
                              Max(cantidad_origen.int, cantidad_candidato.int)))
    ELSE Lit03

\* Faulty variant: words of any length count for the partial bonus.
bonus_principio_sin_largo(principio_origen, principio_candidato) ==
    IF principio_origen = principio_candidato
    THEN [bonus |-> Lit015, tipo |-> "exacto"]
    ELSE IF \E palabra \in {Split(principio_origen)[k] :
                              k \in DOMAIN Split(principio_origen)} :
              Contiene(principio_candidato, palabra)
         THEN [bonus |-> Lit010, tipo |-> "parcial"]
         ELSE [bonus |-> Cero, tipo |-> "diferente"]

\* The active-ingredient bonus (step 3 of calcular_score_similitud).
bonus_principio(principio_origen, principio_candidato) ==
    IF principio_origen = principio_candidato
    THEN [bonus |-> Lit015, tipo |-> "exacto"]
    ELSE IF \E palabra \in {Split(principio_origen)[k] :
                              k \in DOMAIN Split(principio_origen)} :
              /\ Len(palabra) > 3
              /\ Contiene(principio_candidato, palabra)
         THEN [bonus |-> Lit010, tipo |-> "parcial"]
         ELSE [bonus |-> Cero, tipo |-> "diferente"]

\* score_total += term, one term after the other.
RECURSIVE Acumular(_, _)
Acumular(score_total, terminos) ==
    IF terminos = <<>> THEN score_total
    ELSE Acumular(FAdd(score_total, Head(terminos)), Tail(terminos))

\* score * peso of one criterion.
Ponderado(criterio) == FMul(criterio.score, criterio.peso)

\* The five terms added to score_total = 0.0, in the order of the code.
Terminos(detalle) ==
    <<Ponderado(detalle.ATC), Ponderado(detalle.VIA), detalle.PRINCIPIO_BONUS.bonus,
      Ponderado(detalle.FORMA), Ponderado(detalle.CANTIDAD)>>

\* The detalle dict: what each of the five steps records.
Detalle(pesos, medicamento_origen, medicamento_candidato) ==
    [ATC |->
        [coincide |-> medicamento_origen.ATC = medicamento_candidato.ATC,
         score |-> IF medicamento_origen.ATC = medicamento_candidato.ATC
                   THEN Uno ELSE Cero,
         peso |-> pesos.ATC],
     VIA |->
        [coincide |-> medicamento_origen.VIA_ADMINISTRACION =
                      medicamento_candidato.VIA_ADMINISTRACION,
         score |-> IF medicamento_origen.VIA_ADMINISTRACION =
                      medicamento_candidato.VIA_ADMINISTRACION
                   THEN Uno ELSE Cero,
         peso |-> pesos.VIA_ADMINISTRACION],
     PRINCIPIO_BONUS |->
        bonus_principio(medicamento_origen.PRINCIPIO_ACTIVO,
                        medicamento_candidato.PRINCIPIO_ACTIVO),
     FORMA |->
        [coincide |-> medicamento_origen.FORMA_FARMACEUTICA =
                      medicamento_candidato.FORMA_FARMACEUTICA,
         score |-> IF medicamento_origen.FORMA_FARMACEUTICA =
                      medicamento_candidato.FORMA_FARMACEUTICA
                   THEN Uno ELSE Medio,
         peso |-> pesos.FORMA_FARMACEUTICA],
     CANTIDAD |->
        [origen |-> Get(medicamento_origen, "CANTIDAD", PyInt(0)),
         candidato |-> Get(medicamento_candidato, "CANTIDAD", PyInt(0)),
         score |-> score_cantidad(Get(medicamento_origen, "CANTIDAD", PyInt(0)),
                                  Get(medicamento_candidato, "CANTIDAD", PyInt(0))),
         peso |-> pesos.CANTIDAD_SIMILITUD]]

ScoreYDetalle(detalle) ==
    [score_total |-> Acumular(Cero, Terminos(detalle)), detalle |-> detalle]

\* What a call returns, or the exception it raises.
calcular_score_similitud(pesos, medicamento_origen, medicamento_candidato) ==
    IF LanzaTypeError(Get(medicamento_origen, "CANTIDAD", PyInt(0)),
                      Get(medicamento_candidato, "CANTIDAD", PyInt(0)))
    THEN [excepcion |-> "TypeError"]
    ELSE ScoreYDetalle(Detalle(pesos, medicamento_origen, medicamento_candidato))

\* calcular_score_similitud reads five fields of each record and nothing
\* else, so its value is computed once for every pair of the catalogue.
Campos(fila) ==
    [ATC |-> fila.ATC, VIA_ADMINISTRACION |-> fila.VIA_ADMINISTRACION,
     PRINCIPIO_ACTIVO |-> fila.PRINCIPIO_ACTIVO,
     FORMA_FARMACEUTICA |-> fila.FORMA_FARMACEUTICA,
     CANTIDAD |-> fila.CANTIDAD]

CamposCatalogo ==
    {Campos(APandas(m)) : m \in Catalogo \cup CatalogoLote \cup CatalogoRedondeo}

ScoreTabla ==
    [o \in CamposCatalogo, c \in {Campos(m) : m \in Catalogo \cup CatalogoLote \cup CatalogoRedondeo} |-> calcular_score_similitud(pesos_jerarquicos, o, c)]

Score(medicamento_origen, medicamento_candidato) ==
    ScoreTabla[Campos(medicamento_origen), Campos(medicamento_candidato)]

\* Faulty variant: the last n entries are kept (lista[len(lista) - n:]).
HastaLosUltimos(lista, n) ==
    IF n >= 0 THEN SubSeq(lista, Len(lista) - Min(n, Len(lista)) + 1, Len(lista))
    ELSE SubSeq(lista, 1, Max(0, Len(lista) + n))

\* lista[:n]
Hasta(lista, n) ==
    IF n >= 0 THEN SubSeq(lista, 1, Min(n, Len(lista)))
    ELSE SubSeq(lista, 1, Max(0, Len(lista) + n))

\* Faulty variant: entries of equal score are put in front of the earlier ones.
InsertarInestable(ordenada, e) ==
    LET k == Cardinality({i \in DOMAIN ordenada :
                             ordenada[i].score_similitud > e.score_similitud})
    IN  SubSeq(ordenada, 1, k) \o <<e>> \o SubSeq(ordenada, k + 1, Len(ordenada))

\* One step of list.sort(key=score_similitud, reverse=True): the sort is
\* stable, so an entry goes behind every entry whose score is not lower.
Insertar(ordenada, e) ==
    LET k == Cardinality({i \in DOMAIN ordenada :
                             ordenada[i].score_similitud >= e.score_similitud})
    IN  SubSeq(ordenada, 1, k) \o <<e>> \o SubSeq(ordenada, k + 1, Len(ordenada))

\* Faulty variant: the sort without reverse=True.
RECURSIVE OrdenarAscendente(_)
OrdenarAscendente(lista) ==
    IF lista = <<>> THEN <<>>
    ELSE LET e     == lista[Len(lista)]
             antes == OrdenarAscendente(SubSeq(lista, 1, Len(lista) - 1))
             k     == Cardinality({i \in DOMAIN antes :
                                      antes[i].score_similitud <= e.score_similitud})
         IN  SubSeq(antes, 1, k) \o <<e>> \o SubSeq(antes, k + 1, Len(antes))

RECURSIVE Ordenar(_)
Ordenar(lista) ==
    IF lista = <<>> THEN <<>>
    ELSE Insertar(Ordenar(SubSeq(lista, 1, Len(lista) - 1)), lista[Len(lista)])

\* The entry appended for a candidate; score_similitud = round(score, 4) is
\* held as its number of ten-thousandths.
Recomendacion(candidato, score) ==
    [cum |-> candidato.CUM, producto |-> candidato.PRODUCTO, atc |-> candidato.ATC,
     via |-> candidato.VIA_ADMINISTRACION,
     principio_activo |-> candidato.PRINCIPIO_ACTIVO,
     forma_farmaceutica |-> candidato.FORMA_FARMACEUTICA,
     cantidad |-> candidato.CANTIDAD, unidad |-> candidato.UNIDAD_MEDIDA,
     score_similitud |-> Round4(score)]

ResultadoError(cum_origen, mensaje) ==
    [cum_origen |-> cum_origen, encontrado |-> FALSE, error |-> mensaje,
     recomendaciones |-> <<>>]

\* Faulty variant: the origin is not excluded.
CandidatosConOrigen(m, medicamento_origen, cum_origen) ==
    LET EsCandidato(fila) ==
            /\ fila.ATC = medicamento_origen.ATC
            /\ fila.VIA_ADMINISTRACION = medicamento_origen.VIA_ADMINISTRACION
    IN  SelectSeq(m.df_validos, EsCandidato)

\* Faulty variant: the candidates are taken from the whole reference table.
CandidatosDeReferencia(m, medicamento_origen, cum_origen) ==
    LET EsCandidato(fila) ==
            /\ fila.ATC = medicamento_origen.ATC
            /\ fila.VIA_ADMINISTRACION = medicamento_origen.VIA_ADMINISTRACION
            /\ fila.CUM # cum_origen
    IN  SelectSeq(m.df_referencia, EsCandidato)

\* Step 3: the valid rows of the origin's ATC and route, the queried cum excluded.
Candidatos(m, medicamento_origen, cum_origen) ==
    LET EsCandidato(fila) ==
            /\ fila.ATC = medicamento_origen.ATC
            /\ fila.VIA_ADMINISTRACION = medicamento_origen.VIA_ADMINISTRACION
            /\ fila.CUM # cum_origen
    IN  SelectSeq(m.df_validos, EsCandidato)

\* Faulty variant: the threshold test the wrong way round (score <= score_minimo).
SiNoSupera(candidato, score, score_minimo) ==
    IF FGe(score_minimo, score) THEN <<Recomendacion(candidato, score)>> ELSE <<>>

RECURSIVE PuntuarAlReves(_, _, _, _)
PuntuarAlReves(medicamento_origen, candidatos, idx, score_minimo) ==
    IF idx > Len(candidatos) THEN <<>>
    ELSE SiNoSupera(candidatos[idx],
                    Score(medicamento_origen, candidatos[idx]).score_total,
                    score_minimo)
         \o PuntuarAlReves(medicamento_origen, candidatos, idx + 1, score_minimo)

\* Step 4: the scoring loop; the entries that reach score_minimo, in the
\* order of candidatos.
SiSupera(candidato, score, score_minimo) ==
    IF FGe(score, score_minimo) THEN <<Recomendacion(candidato, score)>> ELSE <<>>

RECURSIVE Puntuar(_, _, _, _)
Puntuar(medicamento_origen, candidatos, idx, score_minimo) ==
    IF idx > Len(candidatos) THEN <<>>
    ELSE SiSupera(candidatos[idx],
                  Score(medicamento_origen, candidatos[idx]).score_total,
                  score_minimo)
         \o Puntuar(medicamento_origen, candidatos, idx + 1, score_minimo)

\* Faulty variant: the two labels in the wrong order.
ComboOrigenInvertido(medicamento_origen) ==
    ToString(medicamento_origen.VIA_ADMINISTRACION_label) \o "_" \o
    ToString(medicamento_origen.ATC_label)

\* f"{ATC_label}_{VIA_label}" of the origin.
ComboOrigen(medicamento_origen) ==
    ToString(medicamento_origen.ATC_label) \o "_" \o
    ToString(medicamento_origen.VIA_ADMINISTRACION_label)

\* The error texts, written without the accents of the source strings.
MensajeNoEncontrado == "CUM no encontrado en el dataset"

MensajeSinCombo(medicamento_origen) ==
    "No hay medicamentos validos con la combinacion ATC+VIA: " \o
    medicamento_origen.ATC \o " + " \o medicamento_origen.VIA_ADMINISTRACION

MensajeNoEntrenado == "Modelo no entrenado"

MensajeSinCandidatos(medicamento_origen) ==
    "No hay otros medicamentos validos con ATC: " \o
    medicamento_origen.ATC \o ", VIA: " \o medicamento_origen.VIA_ADMINISTRACION

\* The dict returned after step 5, and the calls made on the way.
ResultadoExito(cum_origen, medicamento_origen, candidatos, recomendaciones, n_recomendaciones, score_minimo) ==
    [resultado |->
        [cum_origen |-> cum_origen,
         medicamento_origen |->
            [producto |-> medicamento_origen.PRODUCTO,
             atc |-> medicamento_origen.ATC,
             via |-> medicamento_origen.VIA_ADMINISTRACION,
             principio_activo |-> medicamento_origen.PRINCIPIO_ACTIVO,
             es_valido |-> medicamento_origen.VALIDO = 1],
         encontrado |-> Len(recomendaciones) > 0,
         candidatos_evaluados |-> Len(candidatos),
         recomendaciones |-> recomendaciones,
         parametros |-> [score_minimo |-> score_minimo,
                         n_recomendaciones |-> n_recomendaciones]],
     traza |-> <<"obtener_info_medicamento", "combo_clusters", "filter">> \o
               [i \in 1..Len(candidatos) |-> "calcular_score_similitud"] \o
               <<"sort">>]

\* Steps 3 to 5, with the candidates of step 3.
ConCandidatos(cum_origen, medicamento_origen, candidatos, n_recomendaciones, score_minimo) ==
    IF Len(candidatos) = 0
    THEN [resultado |->
            ResultadoError(cum_origen, MensajeSinCandidatos(medicamento_origen)),
          traza |-> <<"obtener_info_medicamento", "combo_clusters", "filter">>]
    ELSE IF \E idx \in DOMAIN candidatos :
               LanzaTypeError(medicamento_origen.CANTIDAD, candidatos[idx].CANTIDAD)
    THEN [resultado |-> [excepcion |-> "TypeError"],
          traza |-> <<"obtener_info_medicamento", "combo_clusters", "filter",
                      "calcular_score_similitud">>]
    ELSE ResultadoExito(cum_origen, medicamento_origen, candidatos,
            Hasta(Ordenar(Puntuar(medicamento_origen, candidatos, 1, score_minimo)),
                  n_recomendaciones),
            n_recomendaciones, score_minimo)

\* Steps 2 to 5, with the origin record of step 1.
ConOrigen(m, cum_origen, medicamento_origen, n_recomendaciones, score_minimo) ==
    IF medicamento_origen = None
    THEN [resultado |-> ResultadoError(cum_origen, MensajeNoEncontrado),
          traza |-> <<"obtener_info_medicamento">>]
    ELSE IF ComboOrigen(medicamento_origen) \notin DOMAIN m.combo_clusters
    THEN [resultado |-> ResultadoError(cum_origen, MensajeSinCombo(medicamento_origen)),
          traza |-> <<"obtener_info_medicamento", "combo_clusters">>]
    ELSE IF m.df_validos = NoneDF
    THEN [resultado |-> ResultadoError(cum_origen, MensajeNoEntrenado),
          traza |-> <<"obtener_info_medicamento", "combo_clusters">>]
    ELSE ConCandidatos(cum_origen, medicamento_origen,
                       Candidatos(m, medicamento_origen, cum_origen),
                       n_recomendaciones, score_minimo)

\* recomendar_homologos: the dict it returns and the calls it made.
recomendar_homologos(m, cum_origen, n_recomendaciones, score_minimo) ==
    ConOrigen(m, cum_origen, obtener_info_medicamento(m, cum_origen),
              n_recomendaciones, score_minimo)

(***************************************************************************)
(* The state machine.                                                      *)
(***************************************************************************)
\* The cums, list sizes and thresholds a caller asks with.
CUMsConsulta == {"A-1", "B-1", "C-1", "Z-9"}

NsConsulta == {-1, 0, 1, 2, 5}

ScoresMinimos == {Medio, Float(81, 100), Float(85, 100)}

Init ==
    /\ df_input \in Tablas(MaxFilas)
    /\ df_training = NoneDF
    /\ modelo = ModeloNuevo
    /\ resultado = None
    /\ traza = <<>>
    /\ calculo = None
    /\ lote = None
    /\ conc = None
    /\ enc = None

\* MedicamentosEncodingService.process_full_encoding on the input table; when
\* it raises nothing is assigned.
ProcesarEncoding ==
    /\ ~process_full_encoding_lanza(df_input)
    /\ df_training' = process_full_encoding(df_input)
    /\ UNCHANGED <<df_input, modelo, resultado, traza>>
    /\ UNCHANGED fuera_de_consulta

\* HomologacionClusteringModel.fit on the encoded table.  resultado and
\* traza speak of the last query made on the current model object, so a
\* (re)training forgets them.
Entrenar ==
    /\ df_training # NoneDF
    /\ modelo' \in fit(df_training)
    /\ resultado' = None
    /\ traza' = <<>>
    /\ UNCHANGED <<df_input, df_training>>
    /\ UNCHANGED fuera_de_consulta

\* SistemaRecomendacionHomologos.recomendar_homologos(cum, n, score_minimo).
Recomendar(cum_origen, n_recomendaciones, score_minimo) ==
    /\ \E r \in {recomendar_homologos(modelo, cum_origen, n_recomendaciones,
                                      score_minimo)} :
          /\ resultado' = r.resultado
          /\ traza' = r.traza
    /\ UNCHANGED <<df_input, df_training, modelo>>
    /\ UNCHANGED fuera_de_consulta

Next ==
    \/ ProcesarEncoding
    \/ Entrenar
    \/ \E cum_origen \in CUMsConsulta, n_recomendaciones \in NsConsulta,
          score_minimo \in ScoresMinimos :
          Recomendar(cum_origen, n_recomendaciones, score_minimo)

Spec == Init /\ [][Next]_vars

(***************************************************************************)
(* The same machine on a table of close quantities, asked with a threshold *)
(* of five decimals: what round(score, 4) does to the reported score and   *)
(* to the sort.                                                            *)
(***************************************************************************)
RECURSIVE TablasRedondeo(_)
TablasRedondeo(k) ==
    IF k = 0 THEN {<<>>}
    ELSE LET menores == TablasRedondeo(k - 1)
         IN  menores \cup
             UNION { { Append(t, m) : m \in CatalogoRedondeo \ {t[i] : i \in DOMAIN t} } :
                     t \in {u \in menores : Len(u) = k - 1} }

CUMsRedondeo == {"R-0", "R-1"}

NsRedondeo == {1, 5}

\* 0.5 and 0.99004
ScoresRedondeo == {Medio, Float(24751, 25000)}

InitRedondeo ==
    /\ df_input \in TablasRedondeo(MaxFilas)
    /\ df_training = NoneDF
    /\ modelo = ModeloNuevo
    /\ resultado = None
    /\ traza = <<>>
    /\ calculo = None
    /\ lote = None
    /\ conc = None
    /\ enc = None

NextRedondeo ==
    \/ ProcesarEncoding
    \/ Entrenar
    \/ \E cum_origen \in CUMsRedondeo, n_recomendaciones \in NsRedondeo,
          score_minimo \in ScoresRedondeo :
          Recomendar(cum_origen, n_recomendaciones, score_minimo)

SpecRedondeo == InitRedondeo /\ [][NextRedondeo]_vars

(***************************************************************************)
(* calcular_score_similitud on its own: a pair of dicts is drawn and the   *)
(* method is applied to it.                                                *)
(***************************************************************************)
ParacetamolCafeina ==
    Paracetamol \o <<" ", "C", "a", "f", "e", "i", "n", "a">>

\* The value under 'CANTIDAD': positive, zero, negative, None or NaN.
CantidadesPy == {PyInt(-5), PyInt(0), PyInt(120), PyInt(400), PyInt(500), None, NaN}

\* A dict without the key 'CANTIDAD'.
SinCantidad(d) == [k \in DOMAIN d \ {"CANTIDAD"} |-> d[k]]

ConYSinCantidad(base) ==
    {[base EXCEPT !.CANTIDAD = q] : q \in CantidadesPy} \cup {SinCantidad(base)}

\* Ingredient texts of four and of three letters.
Para == SubSeq(Paracetamol, 1, 4)

Par == SubSeq(Paracetamol, 1, 3)

OrigenesScore ==
    UNION { ConYSinCantidad([ATC |-> "N02BE01", VIA_ADMINISTRACION |-> "Oral",
                             PRINCIPIO_ACTIVO |-> principio,
                             FORMA_FARMACEUTICA |-> "Tableta", CANTIDAD |-> None]) :
            principio \in {Paracetamol, ParacetamolCafeina, Para, Par} }

CandidatosScore ==
    UNION { ConYSinCantidad([ATC |-> atc, VIA_ADMINISTRACION |-> via,
                             PRINCIPIO_ACTIVO |-> principio,
                             FORMA_FARMACEUTICA |-> forma, CANTIDAD |-> None]) :
            atc \in {"N02BE01", "M01AE01"}, via \in {"Oral", "Intravenosa"},
            principio \in {Paracetamol, ParacetamolCafeina, Ibuprofeno, Para},
            forma \in {"Tableta", "Jarabe"} }

InitScore ==
    /\ calculo \in [origen : OrigenesScore, candidato : CandidatosScore,
                     retorno : {None}]
    /\ df_input = <<>>
    /\ df_training = NoneDF
    /\ modelo = ModeloNuevo
    /\ resultado = None
    /\ traza = <<>>
    /\ lote = None
    /\ conc = None
    /\ enc = None

\* sistema.calcular_score_similitud(origen, candidato)
Calcular ==
    /\ calculo.retorno = None
    /\ calculo' = [calculo EXCEPT !.retorno =
                      calcular_score_similitud(pesos_jerarquicos, calculo.origen,
                                               calculo.candidato)]
    /\ UNCHANGED vars_consulta
    /\ UNCHANGED <<lote, conc, enc>>

NextScore == Calcular

SpecScore == InitScore /\ [][NextScore]_vars

(***************************************************************************)
(* services/search_service.py and services/homologacion_masiva_service.py: *)
(* the batch loops.  Identifiers are strings of characters, held as        *)
(* tuples.  The model queried was trained by fit on a frame that carries   *)
(* the label and combo columns alone (clustering_secundario keeps the      *)
(* feature columns that are present), so that the null quantity of a       *)
(* valid row reaches the scorer.                                           *)
(***************************************************************************)
\* str.strip()
Strip(s) ==
    LET visibles == {i \in DOMAIN s : s[i] # " "}
    IN  IF visibles = {} THEN <<>>
        ELSE SubSeq(s, CHOOSE i \in visibles : \A j \in visibles : i <= j,
                       CHOOSE i \in visibles : \A j \in visibles : i >= j)

\* str.lower(), on the letters the identifiers use.
Lower(s) ==
    [i \in DOMAIN s |->
        CASE s[i] = "A" -> "a" [] s[i] = "D" -> "d" [] s[i] = "E" -> "e"
          [] s[i] = "N" -> "n" [] s[i] = "O" -> "o" [] s[i] = "Z" -> "z"
          [] OTHER -> s[i]]

\* The Python str of a tuple of characters.
RECURSIVE Unir(_)
Unir(s) == IF s = <<>> THEN "" ELSE Head(s) \o Unir(Tail(s))

\* not cum_str or cum_str.lower() in ['nan', 'none', '']
Omitido(cum_str) ==
    cum_str = <<>> \/ Lower(cum_str) \in {<<"n", "a", "n">>, <<"n", "o", "n", "e">>}

\* What the cells of the identifier column can hold.
IdsLote ==
    { <<"A", "-", "1">>, <<"A", "-", "1", " ">>, <<"D", "-", "1">>,
      <<"Z", "-", "9">>, <<"N", "a", "N">> }

MaxLote == 3

\* SearchService.buscar_homologos: what it returns or raises.
buscar_homologos(cargado, m, cum_code, n_recomendaciones, score_minimo) ==
    IF ~cargado THEN [excepcion |-> "RuntimeError"]
    ELSE recomendar_homologos(m, Unir(cum_code), n_recomendaciones,
                              score_minimo).resultado

\* d[k] = v
Poner(d, k, v) == [x \in DOMAIN d \cup {k} |-> IF x = k THEN v ELSE d[x]]

\* The sentinel entry; 'SIN HOMOLOGO' is written without the accent of the
\* source string.
SinHomologo ==
    [cum_homologo |-> "SIN HOMOLOGO", nombre_homologo |-> "NO ENCONTRADO", score |-> 0]

\* The entry recorded for an answer, or for the exception caught.
Entrada(r) ==
    IF "excepcion" \in DOMAIN r
    THEN [cum_homologo |-> "ERROR", nombre_homologo |-> "Error: " \o r.excepcion,
          score |-> 0]
    ELSE IF r.encontrado /\ r.recomendaciones # <<>>
    THEN [cum_homologo |-> r.recomendaciones[1].cum,
          nombre_homologo |-> r.recomendaciones[1].producto,
          score |-> r.recomendaciones[1].score_similitud]
    ELSE SinHomologo

\* Faulty variant: an exception leaves the loop.
RegistrarSinCaptura(l, cum, cum_str, r) ==
    IF "excepcion" \in DOMAIN r
    THEN [l EXCEPT !.consultas = Append(@, cum_str), !.i = Len(l.orden) + 1]
    ELSE [l EXCEPT !.homologaciones = Poner(@, cum_str, Entrada(r)),
                   !.consultas = Append(@, cum_str),
                   !.i = @ + 1]

\* The body of the try of procesar_homologacion once the answer r is there:
\* an exception is recorded under str(cum), an answer under cum_str.
Registrar(l, cum, cum_str, r) ==
    [l EXCEPT !.homologaciones =
                 Poner(@, IF "excepcion" \in DOMAIN r THEN cum ELSE cum_str, Entrada(r)),
              !.consultas = Append(@, cum_str),
              !.i = @ + 1]

\* One turn of the loop of procesar_homologacion.
PasoHomologacion(l, m, cum) ==
    IF Omitido(Strip(cum)) THEN [l EXCEPT !.i = @ + 1]
    ELSE Registrar(l, cum, Strip(cum),
                   buscar_homologos(l.cargado, m, Strip(cum), 1, Float(85, 100)))

\* What buscar_multiple stores under cum_code.
ResultadoMultiple(r) ==
    IF "excepcion" \in DOMAIN r
    THEN [error |-> r.excepcion, encontrado |-> FALSE]
    ELSE r

\* One turn of the loop of buscar_multiple.
PasoMultiple(l, m, cum_code) ==
    [l EXCEPT !.homologaciones =
                 Poner(@, cum_code,
                       ResultadoMultiple(buscar_homologos(l.cargado, m, cum_code,
                                                          5, Float(85, 100)))),
              !.consultas = Append(@, cum_code),
              !.i = @ + 1]

\* The three columns added to the frame: homologaciones.get(str(x).strip(),
\* {}) and the defaults of the three .get calls.
Columnas(l) ==
    [k \in DOMAIN l.cums |-> Get(l.homologaciones, Strip(l.cums[k]), SinHomologo)]

\* The orders in which unique() may list the distinct identifiers.
Ordenes(cums) ==
    LET unicos == {cums[k] : k \in DOMAIN cums}
    IN  {o \in [1..Cardinality(unicos) -> unicos] :
            \A j, k \in DOMAIN o : j # k => o[j] # o[k]}

\* The lists a batch is run on.
Listas == UNION {[1..n -> IdsLote] : n \in 1..MaxLote}

InitLote ==
    /\ df_input = TablaLote
    /\ df_training = process_full_encoding(TablaLote)
    /\ modelo \in fit(process_full_encoding(TablaLote))
    /\ resultado = None
    /\ traza = <<>>
    /\ calculo = None
    /\ conc = None
    /\ \E cums \in Listas, cargado \in BOOLEAN :
          \/ \E orden \in Ordenes(cums) :
                lote = [metodo |-> "procesar_homologacion", cargado |-> cargado,
                        cums |-> cums, orden |-> orden, i |-> 1,
                        homologaciones |-> <<>>, consultas |-> <<>>,
                        terminado |-> FALSE, salida |-> <<>>]
          \/ lote = [metodo |-> "buscar_multiple", cargado |-> cargado,
                     cums |-> cums, orden |-> cums, i |-> 1,
                     homologaciones |-> <<>>, consultas |-> <<>>, terminado |-> FALSE,
                     salida |-> <<>>]
    /\ enc = None

\* for i, cum in enumerate(cums_unicos): ...
IterarHomologacion ==
    /\ lote.metodo = "procesar_homologacion"
    /\ lote.i <= Len(lote.orden)
    /\ lote' = PasoHomologacion(lote, modelo, lote.orden[lote.i])
    /\ UNCHANGED vars_consulta
    /\ UNCHANGED <<calculo, conc, enc>>

\* for cum_code in cums: ...
IterarMultiple ==
    /\ lote.metodo = "buscar_multiple"
    /\ lote.i <= Len(lote.orden)
    /\ lote' = PasoMultiple(lote, modelo, lote.orden[lote.i])
    /\ UNCHANGED vars_consulta
    /\ UNCHANGED <<calculo, conc, enc>>

\* After the loop: df_resultado, or return resultados.
Terminar ==
    /\ lote.i > Len(lote.orden)
    /\ ~lote.terminado
    /\ lote' = [lote EXCEPT !.terminado = TRUE,
                            !.salida = IF lote.metodo = "procesar_homologacion"
                                       THEN Columnas(lote) ELSE lote.homologaciones]
    /\ UNCHANGED vars_consulta
    /\ UNCHANGED <<calculo, conc, enc>>

NextLote == IterarHomologacion \/ IterarMultiple \/ Terminar

SpecLote == InitLote /\ [][NextLote]_vars

(***************************************************************************)
(* Training and queries as threads of one process.  objetos is the heap    *)
(* of HomologacionClusteringModel objects; modelo_clustering and           *)
(* sistema_recomendacion are the attributes of the TrainingService, each   *)
(* the number of an object (0 for None).  A SistemaRecomendacionHomologos  *)
(* keeps the object it was built with, so sistema_recomendacion is held    *)
(* as the number of that object.  corridas remembers, for each object,     *)
(* what the fit run on it was to leave.                                    *)
(***************************************************************************)
MaxEntrenamientos == 2

MaxLlamadas == 2

TablasConc ==
    { << Med("A-1", "DOLEX", "N02BE01", "Oral", Paracetamol, "Tableta", 500, "mg", 1),
         Med("A-2", "WINADOL", "N02BE01", "Oral", Paracetamol, "Tableta", 500, "mg", 1),
         Med("B-1", "TYLEX", "N02BE01", "Oral", Acetaminofen, "Jarabe", 120, "mg", 0) >>,
      << Med("A-2", "WINADOL", "N02BE01", "Oral", Paracetamol, "Tableta", 500, "mg", 1),
         Med("B-1", "TYLEX", "N02BE01", "Oral", Acetaminofen, "Jarabe", 120, "mg", 0) >>,
      << Med("B-1", "TYLEX", "N02BE01", "Oral", Acetaminofen, "Jarabe", 120, "mg", 0) >> }

CUMsConc == {"A-1", "B-1"}

\* Faulty variant: fit is run again on the object the queries use.
ObjetoEnUso(c) ==
    IF c.sistema_recomendacion = 0 THEN Len(c.objetos) + 1
    ELSE c.sistema_recomendacion

\* self.modelo_clustering = HomologacionClusteringModel(): a new object.
ObjetoNuevo(c) == Len(c.objetos) + 1

\* The attribute a call reads next, off the object it holds: df_referencia
\* (obtener_info_medicamento), combo_clusters (the gate), df_validos (the
\* filter).
Leer(objetos, llamada) ==
    CASE llamada.leidos = 0 ->
            [llamada.visto EXCEPT !.df_referencia = objetos[llamada.modelo].df_referencia]
      [] llamada.leidos = 1 ->
            [llamada.visto EXCEPT !.combo_clusters = objetos[llamada.modelo].combo_clusters]
      [] llamada.leidos = 2 ->
            [llamada.visto EXCEPT !.df_validos = objetos[llamada.modelo].df_validos]

\* The call returns after this read: the origin was not found, the gate
\* refused it, or steps 3 to 5 were done.
RetornaTras(visto, cum_origen, leidos) ==
    \/ leidos = 3
    \/ obtener_info_medicamento(visto, cum_origen) = None
    \/ /\ leidos = 2
       /\ ComboOrigen(obtener_info_medicamento(visto, cum_origen))
             \notin DOMAIN visto.combo_clusters

Avanzar(llamada, visto, retorna) ==
    [llamada EXCEPT !.visto = visto, !.leidos = @ + 1, !.terminada = retorna,
                    !.resultado =
                        IF retorna
                        THEN recomendar_homologos(visto, llamada.cum_origen, 2,
                                                  Medio).resultado
                        ELSE None]

\* Faulty variant: the filter result is assigned to the df_validos of the
\* model instead of the local candidatos.
PasoLlamadaEnSitio(objetos, llamada) ==
    [objetos |->
        IF llamada.leidos = 2
        THEN [objetos EXCEPT ![llamada.modelo].df_validos =
                 Candidatos(objetos[llamada.modelo],
                            obtener_info_medicamento(llamada.visto, llamada.cum_origen),
                            llamada.cum_origen)]
        ELSE objetos,
     llamada |-> Avanzar(llamada, Leer(objetos, llamada),
                         RetornaTras(Leer(objetos, llamada), llamada.cum_origen,
                                     llamada.leidos + 1))]

\* One step of a call of recomendar_homologos: the heap it leaves and the
\* call's own locals.
PasoLlamada(objetos, llamada) ==
    [objetos |-> objetos,
     llamada |-> Avanzar(llamada, Leer(objetos, llamada),
                         RetornaTras(Leer(objetos, llamada), llamada.cum_origen,
                                     llamada.leidos + 1))]

\* One step of fit on the object: lines 205, 211, 214 and 217.
PasoFit(c) ==
    CASE c.pc = "df_validos" ->
            [c EXCEPT !.objetos[c.modelo_clustering].df_validos =
                          c.corridas[c.modelo_clustering].df_validos,
                      !.pc = "combo_clusters"]
      [] c.pc = "combo_clusters" ->
            [c EXCEPT !.objetos[c.modelo_clustering].combo_clusters =
                          c.corridas[c.modelo_clustering].combo_clusters,
                      !.pc = "secundario"]
      [] c.pc = "secundario" ->
            [c EXCEPT !.pc = IF SecundarioFalla(c.objetos[c.modelo_clustering].df_validos)
                             THEN "reposo" ELSE "df_referencia"]
      [] c.pc = "df_referencia" ->
            [c EXCEPT !.objetos[c.modelo_clustering].df_referencia =
                          c.corridas[c.modelo_clustering].df_referencia,
                      !.pc = "sistema"]

InitConc ==
    /\ conc = [objetos |-> <<>>, corridas |-> <<>>, modelo_clustering |-> 0,
               sistema_recomendacion |-> 0, pc |-> "reposo", entrenamientos |-> 0,
               llamadas |-> <<>>]
    /\ df_input = <<>>
    /\ df_training = NoneDF
    /\ modelo = ModeloNuevo
    /\ resultado = None
    /\ traza = <<>>
    /\ calculo = None
    /\ lote = None
    /\ enc = None

\* entrenar_modelo_completo(df_training), up to the call of fit.
EmpezarEntrenamiento(df, id) ==
    /\ conc.pc = "reposo"
    /\ conc.entrenamientos < MaxEntrenamientos
    /\ \E corrida \in fit(process_full_encoding(df)) :
          conc' = [conc EXCEPT
                      !.objetos = IF id > Len(@) THEN Append(@, ModeloNuevo) ELSE @,
                      !.corridas = IF id > Len(@) THEN Append(@, corrida)
                                   ELSE [@ EXCEPT ![id] = corrida],
                      !.modelo_clustering = id,
                      !.entrenamientos = @ + 1,
                      !.pc = "df_validos"]
    /\ UNCHANGED vars_consulta
    /\ UNCHANGED <<calculo, lote, enc>>

Fit ==
    /\ conc.pc \in {"df_validos", "combo_clusters", "secundario", "df_referencia"}
    /\ conc' = PasoFit(conc)
    /\ UNCHANGED vars_consulta
    /\ UNCHANGED <<calculo, lote, enc>>

\* self.sistema_recomendacion = SistemaRecomendacionHomologos(self.modelo_clustering)
Publicar ==
    /\ conc.pc = "sistema"
    /\ conc' = [conc EXCEPT !.sistema_recomendacion = conc.modelo_clustering,
                            !.pc = "reposo"]
    /\ UNCHANGED vars_consulta
    /\ UNCHANGED <<calculo, lote, enc>>

\* A thread calls self.sistema_recomendacion.recomendar_homologos(cum, 2, 0.5).
IniciarLlamada(cum_origen) ==
    /\ conc.sistema_recomendacion # 0
    /\ Len(conc.llamadas) < MaxLlamadas
    /\ conc' = [conc EXCEPT !.llamadas =
                    Append(@, [cum_origen |-> cum_origen,
                               modelo |-> conc.sistema_recomendacion,
                               leidos |-> 0, visto |-> ModeloNuevo,
                               terminada |-> FALSE, resultado |-> None,
                               solapada |-> \E k \in DOMAIN conc.llamadas :
                                               ~conc.llamadas[k].terminada])]
    /\ UNCHANGED vars_consulta
    /\ UNCHANGED <<calculo, lote, enc>>

AvanzarLlamada(k) ==
    /\ ~conc.llamadas[k].terminada
    /\ \E r \in {PasoLlamada(conc.objetos, conc.llamadas[k])} :
          conc' = [conc EXCEPT !.objetos = r.objetos, !.llamadas[k] = r.llamada]
    /\ UNCHANGED vars_consulta
    /\ UNCHANGED <<calculo, lote, enc>>

NextConc ==
    \/ \E df \in TablasConc : EmpezarEntrenamiento(df, ObjetoNuevo(conc))
    \/ Fit
    \/ Publicar
    \/ \E cum_origen \in CUMsConc : IniciarLlamada(cum_origen)
    \/ \E k \in DOMAIN conc.llamadas : AvanzarLlamada(k)

SpecConc == InitConc /\ [][NextConc]_vars

(***************************************************************************)
(* One MedicamentosEncodingService object used for several runs of         *)
(* process_full_encoding (specification SpecEnc).  The dicts stored under  *)
(* self.encoders are objects: enc.objetos is the heap, enc.encoders maps   *)
(* each key of self.encoders to the place of its dict in the heap, and     *)
(* enc.corridas records, for each run, its table, how it ended and what    *)
(* self.encoders and the heap were when it ended.                          *)
(***************************************************************************)
MaxCorridas == 2

SinColumna(df, columna) ==
    [i \in DOMAIN df |-> [k \in DOMAIN df[i] \ {columna} |-> df[i][k]]]

ConNulo(df, i, columna) == [df EXCEPT ![i][columna] = NuloDe(columna)]

TablasBase ==
    { << Med("A-1", "DOLEX", "N02BE01", "Oral", Paracetamol, "Tableta", 500, "mg", 1),
         Med("B-1", "TYLEX", "N02BE01", "Oral", Acetaminofen, "Jarabe", 120, "mg", 0) >>,
      << Med("A-2", "WINADOL", "N02BE01", "Oral", Paracetamol, "Tableta", 500, "mg", 1),
         Med("C-1", "PARA IV", "N02BE01", "Intravenosa", Paracetamol, "Tableta", 500, "mg", 1) >>,
      << Med("D-1", "ADVIL", "M01AE01", "Oral", Ibuprofeno, "Tableta", 400, "mg", 0),
         Med("A-3", "ACETA", "N02BE01", "Oral", Acetaminofen, "Tableta", 0, "mg", 1),
         Med("B-1", "TYLEX", "N02BE01", "Oral", Acetaminofen, "Jarabe", 120, "mg", 0) >> }

\* The tables of the runs: whole, without one of the optional columns, or
\* with a null in one cell of a column that also holds a text.
TablasEnc ==
    UNION { { df, SinColumna(df, "UNIDAD_MEDIDA"), SinColumna(df, "FORMA_FARMACEUTICA"),
              ConNulo(df, 1, "ATC"), ConNulo(df, Len(df), "PRINCIPIO_ACTIVO"),
              ConNulo(df, Len(df), "FORMA_FARMACEUTICA") } : df \in TablasBase }

\* The dict the encoding of a variable stores.
EncoderDe(df, var) ==
    IF \E k \in DOMAIN variables_criticas : variables_criticas[k] = var
    THEN EncoderCritico(df, var)
    ELSE EncoderImportante(df, var)

\* The variables whose encoding is reached and completes: all of them, or
\* those before the first one whose encoding raises.
Completadas(df) ==
    LET Antes(k) == \A j \in 1..k : ~SortedLanza(df, Codificadas(df)[j])
        n        == Cardinality({k \in DOMAIN Codificadas(df) : Antes(k)})
    IN  SubSeq(Codificadas(df), 1, n)

\* The place of var in a list of variables.
Lugar(lista, var) == CHOOSE k \in DOMAIN lista : lista[k] = var

\* self.encoders[columna] = {...} for each completed variable: a new dict
\* each time, bound to the key; the other keys keep their dicts.
AsignarEncoders(e, df, completadas) ==
    [e EXCEPT
        !.objetos = e.objetos \o [k \in DOMAIN completadas |-> EncoderDe(df, completadas[k])],
        !.encoders = [var \in DOMAIN e.encoders \cup {completadas[k] : k \in DOMAIN completadas} |->
                         IF \E k \in DOMAIN completadas : completadas[k] = var
                         THEN Len(e.objetos) + Lugar(completadas, var)
                         ELSE e.encoders[var]]]

\* What the run returns: the training table, or the exception it raises.
Retorno(df) ==
    IF process_full_encoding_lanza(df)
    THEN [excepcion |-> "TypeError", df_training |-> <<>>]
    ELSE [excepcion |-> "", df_training |-> process_full_encoding(df)]

Anotar(e, df) ==
    [e EXCEPT !.corridas = Append(e.corridas,
        [tabla |-> df, retorno |-> Retorno(df), encoders |-> e.encoders,
         objetos |-> e.objetos])]

InitEnc ==
    /\ enc = [objetos |-> <<>>, encoders |-> <<>>, corridas |-> <<>>]
    /\ df_input = <<>>
    /\ df_training = NoneDF
    /\ modelo = ModeloNuevo
    /\ resultado = None
    /\ traza = <<>>
    /\ calculo = None
    /\ lote = None
    /\ conc = None

\* service.process_full_encoding(df) on the one service object.
Codificar(df) ==
    /\ Len(enc.corridas) < MaxCorridas
    /\ enc' = Anotar(AsignarEncoders(enc, df, Completadas(df)), df)
    /\ UNCHANGED vars_consulta
    /\ UNCHANGED <<calculo, lote, conc>>

NextEnc == \E df \in TablasEnc : Codificar(df)

SpecEnc == InitEnc /\ [][NextEnc]_vars

(***************************************************************************)
(* Properties of the recommendation query.  They are stated on the tables  *)
(* of the model object itself, not through the operators of the query.     *)
(***************************************************************************)
Consultado == resultado # None

Entrenado == modelo.df_referencia # NoneDF

Recs == resultado.recomendaciones

ConParametros == Consultado /\ "parametros" \in DOMAIN resultado

EsResultadoError(r) ==
    /\ "error" \in DOMAIN r
    /\ r.encontrado = FALSE
    /\ r.recomendaciones = <<>>

Rango(f) == {f[i] : i \in DOMAIN f}

Veces(lista, e) == Cardinality({i \in DOMAIN lista : lista[i] = e})

\* The rows of the reference table that carry the cum, and the first of them.
FilasCum(cum) ==
    {i \in DOMAIN modelo.df_referencia : modelo.df_referencia[i].CUM = cum}

PrimeraFila(cum) ==
    modelo.df_referencia[CHOOSE i \in FilasCum(cum) : \A j \in FilasCum(cum) : i <= j]

MismoCombo(fila, o) ==
    fila.ATC = o.ATC /\ fila.VIA_ADMINISTRACION = o.VIA_ADMINISTRACION

\* The valid rows of the reference table with the ATC and route of o, and
\* those of them whose cum is not the queried one, in table order.
ValidasMismoCombo(o) ==
    LET P(fila) == fila.VALIDO = 1 /\ MismoCombo(fila, o)
    IN  SelectSeq(modelo.df_referencia, P)

Elegibles(o, cum) ==
    LET P(fila) == fila.VALIDO = 1 /\ MismoCombo(fila, o) /\ fila.CUM # cum
    IN  SelectSeq(modelo.df_referencia, P)

EsEntradaDe(e, fila) ==
    /\ e.cum = fila.CUM /\ e.producto = fila.PRODUCTO
    /\ e.atc = fila.ATC /\ e.via = fila.VIA_ADMINISTRACION
    /\ e.principio_activo = fila.PRINCIPIO_ACTIVO
    /\ e.forma_farmaceutica = fila.FORMA_FARMACEUTICA
    /\ e.cantidad = fila.CANTIDAD /\ e.unidad = fila.UNIDAD_MEDIDA

\* The entries of the eligible rows whose score reaches score_minimo, in
\* table order, each with the score the query reports for it.
Pasan(o, cum, score_minimo) ==
    LET elegibles == Elegibles(o, cum)
        P(fila)   == FGe(Score(o, fila).score_total, score_minimo)
        pasan     == SelectSeq(elegibles, P)
    IN  [i \in DOMAIN pasan |-> Recomendacion(pasan[i], Score(o, pasan[i]).score_total)]

PasanConsulta ==
    Pasan(PrimeraFila(resultado.cum_origen), resultado.cum_origen,
          resultado.parametros.score_minimo)

\* C1: no entry of the returned list carries the queried cum, whether the
\* origin record is valid or not.
C1_OrigenNuncaRecomendado ==
    Consultado => \A i \in DOMAIN Recs : Recs[i].cum # resultado.cum_origen

\* C1 witness: a non-empty list for a valid origin, which is itself a valid
\* row of its own ATC and route.
C1_Testigo ==
    /\ ConParametros
    /\ Recs # <<>>
    /\ resultado.medicamento_origen.es_valido

\* C2: every entry is a row of the valid subset with exactly the ATC and the
\* route of the origin record; no invalid record is recommended.
C2_SoloValidosDelMismoCombo ==
    Consultado =>
        \A i \in DOMAIN Recs :
            \E j \in DOMAIN modelo.df_validos :
                LET fila == modelo.df_validos[j]
                IN  /\ fila.VALIDO = 1
                    /\ EsEntradaDe(Recs[i], fila)
                    /\ MismoCombo(fila, PrimeraFila(resultado.cum_origen))
                    /\ \E k \in DOMAIN modelo.df_referencia :
                          modelo.df_referencia[k] = fila

\* C2 witness: a non-empty list while the table holds an invalid record of
\* the origin's ATC and route under another cum.
C2_Testigo ==
    /\ ConParametros
    /\ Recs # <<>>
    /\ \E k \in DOMAIN modelo.df_referencia :
          /\ modelo.df_referencia[k].VALIDO = 0
          /\ modelo.df_referencia[k].CUM # resultado.cum_origen
          /\ MismoCombo(modelo.df_referencia[k], PrimeraFila(resultado.cum_origen))

\* C3: on a trained model, a cum that no record of the reference table
\* carries gets the NOT_FOUND error result, with an empty list, and no
\* candidate is scored.
C3_CumDesconocido ==
    (Consultado /\ Entrenado /\ FilasCum(resultado.cum_origen) = {}) =>
        /\ EsResultadoError(resultado)
        /\ resultado.error = MensajeNoEncontrado
        /\ "calcular_score_similitud" \notin Rango(traza)
        /\ "filter" \notin Rango(traza)

\* C3 witness: such a query on a trained model.
C3_Testigo ==
    /\ Consultado /\ Entrenado
    /\ FilasCum(resultado.cum_origen) = {}
    /\ traza # <<>>

\* C4: a cum of the table whose (ATC, route) pair no valid record has gets
\* the NO_VALID_COMBO error result with an empty list, before any candidate
\* is filtered or scored.
C4_SinComboValido ==
    (/\ Consultado /\ Entrenado
     /\ FilasCum(resultado.cum_origen) # {}
     /\ ValidasMismoCombo(PrimeraFila(resultado.cum_origen)) = <<>>) =>
        /\ EsResultadoError(resultado)
        /\ resultado.error = MensajeSinCombo(PrimeraFila(resultado.cum_origen))
        /\ traza = <<"obtener_info_medicamento", "combo_clusters">>

\* C4 witness: an origin of the table whose pair no valid record has.
C4_Testigo ==
    /\ Consultado /\ Entrenado
    /\ FilasCum(resultado.cum_origen) # {}
    /\ ValidasMismoCombo(PrimeraFila(resultado.cum_origen)) = <<>>

\* C5: when some valid record has the origin's (ATC, route) pair but none of
\* them has another cum than the queried one, the result is the
\* NO_CANDIDATES error, with an empty list, and its error differs from those
\* of NOT_FOUND and NO_VALID_COMBO.
C5_SinOtrosCandidatos ==
    (/\ Consultado /\ Entrenado
     /\ FilasCum(resultado.cum_origen) # {}
     /\ ValidasMismoCombo(PrimeraFila(resultado.cum_origen)) # <<>>
     /\ Elegibles(PrimeraFila(resultado.cum_origen), resultado.cum_origen) = <<>>) =>
        /\ EsResultadoError(resultado)
        /\ resultado.error = MensajeSinCandidatos(PrimeraFila(resultado.cum_origen))
        /\ resultado.error # MensajeNoEncontrado
        /\ resultado.error # MensajeSinCombo(PrimeraFila(resultado.cum_origen))
        /\ "calcular_score_similitud" \notin Rango(traza)

\* C5 witness: the origin's pair is in the combo index and every valid
\* record of the pair carries the queried cum.
C5_Testigo ==
    /\ Consultado /\ Entrenado
    /\ FilasCum(resultado.cum_origen) # {}
    /\ ComboOrigen(PrimeraFila(resultado.cum_origen)) \in DOMAIN modelo.combo_clusters
    /\ ValidasMismoCombo(PrimeraFila(resultado.cum_origen)) # <<>>
    /\ Elegibles(PrimeraFila(resultado.cum_origen), resultado.cum_origen) = <<>>

\* The case of C6: there are candidates and none of them reaches score_minimo.
TodosBajoElUmbral ==
    /\ ConParametros
    /\ Elegibles(PrimeraFila(resultado.cum_origen), resultado.cum_origen) # <<>>
    /\ PasanConsulta = <<>>

\* C6 (as the specification states it): when there are candidates and every one scores below
\* score_minimo, the result is a success with an empty list, carrying the
\* origin summary and candidatos_evaluados, and it is not classified as a
\* failure / not-found result as the hard errors are.
C6_ExitoConListaVacia ==
    TodosBajoElUmbral =>
        /\ Recs = <<>>
        /\ "medicamento_origen" \in DOMAIN resultado
        /\ "candidatos_evaluados" \in DOMAIN resultado
        /\ "error" \notin DOMAIN resultado
        /\ resultado.encontrado = TRUE

\* C7 (as the specification states it): the list has at most n entries, and none when n <= 0.
C7_ALoSumoN ==
    ConParametros => Len(Recs) <= Max(0, resultado.parametros.n_recomendaciones)

C9_EmpatesEnOrdenDeTabla ==
    ConParametros =>
        \A e \in Rango(Recs) :
            LET Igual(x)  == x.score_similitud = e.score_similitud
                devueltas == SelectSeq(Recs, Igual)
                pasan     == SelectSeq(PasanConsulta, Igual)
            IN  /\ Len(devueltas) <= Len(pasan)
                /\ devueltas = SubSeq(pasan, 1, Len(devueltas))

\* C9 witness: two different passing candidates tie and only the first of
\* them, in table order, is returned.
C9_Testigo ==
    /\ ConParametros
    /\ Len(PasanConsulta) = 2
    /\ PasanConsulta[1].score_similitud = PasanConsulta[2].score_similitud
    /\ PasanConsulta[1] # PasanConsulta[2]
    /\ Recs = <<PasanConsulta[1]>>

\* C10: on the same model, for the same cum and n, a query with a threshold
\* that is not lower returns a list that is not longer (an error result
\* stays an error result, whatever n and the threshold).
C10_UmbralMonotono ==
    [][(Consultado /\ Consultado' /\ modelo' = modelo
        /\ resultado'.cum_origen = resultado.cum_origen) =>
          /\ ("parametros" \in DOMAIN resultado /\ "parametros" \in DOMAIN resultado'
              /\ resultado'.parametros.n_recomendaciones =
                 resultado.parametros.n_recomendaciones
              /\ BCmp(resultado.parametros.score_minimo,
                      resultado'.parametros.score_minimo) <= 0)
             => Len(resultado'.recomendaciones) <= Len(resultado.recomendaciones)
          /\ EsResultadoError(resultado) => EsResultadoError(resultado')]_vars

\* C10 witness: a query whose list is shorter than the list the same cum and
\* n get with the lowest threshold.
C10_Testigo ==
    /\ ConParametros
    /\ BCmp(Medio, resultado.parametros.score_minimo) < 0
    /\ Len(Recs) <
       Len(recomendar_homologos(modelo, resultado.cum_origen,
                                resultado.parametros.n_recomendaciones,
                                Medio).resultado.recomendaciones)

(***************************************************************************)
(* Properties of calcular_score_similitud (specification SpecScore).       *)
(***************************************************************************)
Calculado == calculo # None /\ calculo.retorno # None

\* The call returned (score_total, detalle) rather than raising.
Retorna == Calculado /\ "score_total" \in DOMAIN calculo.retorno

Lit115 == Float(115, 100)

\* C11: with the default weights, every total score that
\* calcular_score_similitud returns lies in the closed interval [0.0, 1.15].
C11_ScoreEnIntervalo ==
    Retorna => /\ FGe(calculo.retorno.score_total, Cero)
               /\ FGe(Lit115, calculo.retorno.score_total)

\* s[i..j] is a word of s: a longest run of characters that are not blanks.
EsPalabra(s, i, j) ==
    /\ i <= j
    /\ \A k \in i..j : s[k] # " "
    /\ i = 1 \/ s[i - 1] = " "
    /\ j = Len(s) \/ s[j + 1] = " "

\* Some word of more than three characters of origen occurs in candidato.
PalabraLargaEn(origen, candidato) ==
    \E i, j \in DOMAIN origen :
        /\ EsPalabra(origen, i, j)
        /\ j - i + 1 > 3
        /\ \E k \in DOMAIN candidato :
              /\ k + (j - i) <= Len(candidato)
              /\ \A d \in 0..(j - i) : candidato[k + d] = origen[i + d]

\* The weighted sum of the four criteria, the bonus left out.
SumaPonderada(detalle) ==
    Acumular(Cero, <<Ponderado(detalle.ATC), Ponderado(detalle.VIA),
                     Ponderado(detalle.FORMA), Ponderado(detalle.CANTIDAD)>>)

\* C25: the active-ingredient bonus of a call that returns is 0.15 exactly
\* when the two ingredient texts are equal, 0.10 exactly when they differ and
\* some word of more than three characters of the origin's text occurs in
\* the candidate's text, and 0.0 otherwise; the total is the weighted sum of
\* the four criteria plus the bonus (to four decimals), and a total above
\* 1.0 has a bonus above 0.
C25_BonusPrincipioActivo ==
    Retorna
    => /\ calculo.retorno.detalle.PRINCIPIO_BONUS.bonus \in {Lit015, Lit010, Cero}
       /\ calculo.retorno.detalle.PRINCIPIO_BONUS.bonus = Lit015
          <=> calculo.origen.PRINCIPIO_ACTIVO = calculo.candidato.PRINCIPIO_ACTIVO
       /\ calculo.retorno.detalle.PRINCIPIO_BONUS.bonus = Lit010
          <=> /\ calculo.origen.PRINCIPIO_ACTIVO # calculo.candidato.PRINCIPIO_ACTIVO
              /\ PalabraLargaEn(calculo.origen.PRINCIPIO_ACTIVO,
                                calculo.candidato.PRINCIPIO_ACTIVO)
       /\ Round4(calculo.retorno.score_total)
          = Round4(SumaPonderada(calculo.retorno.detalle))
            + Round4(calculo.retorno.detalle.PRINCIPIO_BONUS.bonus)
       /\ FLt(Uno, calculo.retorno.score_total)
          => calculo.retorno.detalle.PRINCIPIO_BONUS.bonus # Cero

\* C25 witness: the call returned the partial bonus for an origin of two
\* words, one of which is the candidate's text.
C25_Testigo ==
    /\ Retorna
    /\ calculo.origen.PRINCIPIO_ACTIVO = ParacetamolCafeina
    /\ calculo.candidato.PRINCIPIO_ACTIVO = Paracetamol
    /\ calculo.retorno.detalle.PRINCIPIO_BONUS.bonus = Lit010

(***************************************************************************)
(* The scenario of three records.                                          *)
(***************************************************************************)
\* The reference table holds exactly A-1 (DOLEX), A-2 (WINADOL) and B-1
\* (TYLEX), in some order.
TablaEscenario ==
    /\ Entrenado
    /\ Len(modelo.df_referencia) = 3
    /\ {<<modelo.df_referencia[i].CUM, modelo.df_referencia[i].PRODUCTO>> :
            i \in DOMAIN modelo.df_referencia}
       = {<<"A-1", "DOLEX">>, <<"A-2", "WINADOL">>, <<"B-1", "TYLEX">>}

\* C12: on the table A-1, A-2 (valid, equal attributes) and B-1 (invalid,
\* Acetaminofen, Jarabe, 120), the query ('B-1', n = 2, score_minimo = 0.5)
\* succeeds and returns exactly the entries of A-1 and A-2, each with
\* score_similitud 0.81.
C12_EscenarioTresRegistros ==
    (Consultado /\ TablaEscenario /\ resultado.cum_origen = "B-1")
    => /\ ConParametros
       /\ (resultado.parametros.n_recomendaciones = 2 /\
           resultado.parametros.score_minimo = Medio)
          => /\ Len(Recs) = 2
             /\ {Recs[i].cum : i \in DOMAIN Recs} = {"A-1", "A-2"}
             /\ \A i \in DOMAIN Recs :
                   /\ EsEntradaDe(Recs[i], PrimeraFila(Recs[i].cum))
                   /\ Recs[i].score_similitud = 8100

\* C12 witness: the query of the scenario has been answered.
C12_Testigo ==
    /\ ConParametros /\ TablaEscenario /\ resultado.cum_origen = "B-1"
    /\ resultado.parametros.n_recomendaciones = 2
    /\ resultado.parametros.score_minimo = Medio
    /\ Len(Recs) = 2

(***************************************************************************)
(* Queries on a model that has not been trained.                           *)
(***************************************************************************)
\* The reference table or the valid subset of the model is still None.
SinEntrenar == modelo.df_referencia = NoneDF \/ modelo.df_validos = NoneDF

\* C15: a query made while the reference table or the valid subset is unset
\* is surfaced as a fatal condition: its outcome is never the NOT_FOUND
\* result nor any other ordinary result dict with an empty recommendation
\* list.
C15_SinEntrenarEsFatal ==
    (Consultado /\ SinEntrenar)
    => /\ resultado # ResultadoError(resultado.cum_origen, MensajeNoEncontrado)
       /\ ~("recomendaciones" \in DOMAIN resultado /\ Recs = <<>>)

(***************************************************************************)
(* Quantities that are zero, negative or missing.                          *)
(***************************************************************************)
\* The dict has no usable quantity: no key 'CANTIDAD', the value None or
\* NaN, or a number that is not positive.
SinCantidadPositiva(d) ==
    \/ "CANTIDAD" \notin DOMAIN d
    \/ ~EsPositiva(d.CANTIDAD)

\* C16: when the quantity of the origin or of the candidate is zero,
\* negative or missing, calcular_score_similitud does not raise and the
\* quantity sub-score is the default 0.3.
C16_CantidadPorDefecto ==
    (Calculado /\ (SinCantidadPositiva(calculo.origen) \/
                   SinCantidadPositiva(calculo.candidato)))
    => /\ Retorna
       /\ calculo.retorno.detalle.CANTIDAD.score = Lit03

(***************************************************************************)
(* The label maps of one encoding.                                         *)
(***************************************************************************)
ColumnasCodificadas == {"ATC", "VIA_ADMINISTRACION", "FORMA_FARMACEUTICA"}

Etiqueta(fila, columna) == fila[columna \o "_label"]

\* encoders[columna]['label_map'] after process_full_encoding(df_input).
Encoder(columna) == label_map(df_input, columna)

\* C18: for each encoded column the labels of the rows are exactly
\* 0..k-1, k the number of distinct values over all rows; the labels follow
\* the order of the values, so that no two distinct values share a label;
\* and the only value the stored label map sends to the label of a row is
\* the value of that row.
C18_EtiquetasBiyectivas ==
    df_training # NoneDF
    => \A columna \in ColumnasCodificadas :
          /\ {Etiqueta(df_training[i], columna) : i \in DOMAIN df_training}
             = 0..(Cardinality(Columna(df_training, columna)) - 1)
          /\ \A i, j \in DOMAIN df_training :
                /\ StrLt(df_training[i][columna], df_training[j][columna])
                   <=> Etiqueta(df_training[i], columna) < Etiqueta(df_training[j], columna)
                /\ df_training[i][columna] = df_training[j][columna]
                   <=> Etiqueta(df_training[i], columna) = Etiqueta(df_training[j], columna)
          /\ \A i \in DOMAIN df_training :
                {val \in DOMAIN Encoder(columna) :
                    Encoder(columna)[val] = Etiqueta(df_training[i], columna)}
                = {df_training[i][columna]}

\* C18 witness: an encoded table in which some column has two values, one
\* of them carried by invalid rows only.
C18_Testigo ==
    /\ df_training # NoneDF
    /\ \E columna \in ColumnasCodificadas : \E i \in DOMAIN df_training :
          /\ df_training[i].VALIDO = 0
          /\ Cardinality(Columna(df_training, columna)) >= 2
          /\ \A j \in DOMAIN df_training :
                df_training[j].VALIDO = 1
                   => df_training[j][columna] # df_training[i][columna]

(***************************************************************************)
(* The combo index and the literal (ATC, route) pairs.                     *)
(***************************************************************************)
\* The literal pairs of the valid rows.
ParesValidos ==
    {<<modelo.df_validos[i].ATC, modelo.df_validos[i].VIA_ADMINISTRACION>> :
        i \in DOMAIN modelo.df_validos}

\* C20: the combo index has one entry per literal (ATC, route) pair of the
\* valid rows: its keys are the keys of the valid rows, two valid rows have
\* the same key exactly when they have the same pair; and the gate lets an
\* origin of the reference table through exactly when some valid row has
\* its ATC string and its route string.
C20_IndicePorParLiteral ==
    modelo.df_validos # NoneDF
    => /\ DOMAIN modelo.combo_clusters
          = {modelo.df_validos[i].ATC_VIA_combo : i \in DOMAIN modelo.df_validos}
       /\ Cardinality(DOMAIN modelo.combo_clusters) = Cardinality(ParesValidos)
       /\ \A i, j \in DOMAIN modelo.df_validos :
             modelo.df_validos[i].ATC_VIA_combo = modelo.df_validos[j].ATC_VIA_combo
                <=> MismoCombo(modelo.df_validos[i], modelo.df_validos[j])
       /\ Entrenado
          => \A i \in DOMAIN modelo.df_referencia :
                ComboOrigen(modelo.df_referencia[i]) \in DOMAIN modelo.combo_clusters
                   <=> ValidasMismoCombo(modelo.df_referencia[i]) # <<>>
       /\ (Consultado /\ Entrenado /\ FilasCum(resultado.cum_origen) # {})
          => (resultado = ResultadoError(resultado.cum_origen,
                             MensajeSinCombo(PrimeraFila(resultado.cum_origen)))
                <=> ValidasMismoCombo(PrimeraFila(resultado.cum_origen)) = <<>>)

\* C20 witness: two literal pairs among the valid rows, and an invalid
\* origin that the gate let through.
C20_Testigo ==
    /\ Consultado /\ Entrenado
    /\ Cardinality(ParesValidos) = 2
    /\ FilasCum(resultado.cum_origen) # {}
    /\ PrimeraFila(resultado.cum_origen).VALIDO = 0
    /\ ~EsResultadoError(resultado) \/ resultado.error # MensajeSinCombo(PrimeraFila(resultado.cum_origen))

(***************************************************************************)
(* Properties of the batch loops (specification SpecLote).                 *)
(***************************************************************************)
\* What the query of an identifier of the running batch returns or raises.
Respuesta(cum_code, n_recomendaciones) ==
    buscar_homologos(lote.cargado, modelo, cum_code, n_recomendaciones, Float(85, 100))

Lanza(cum_code) == "excepcion" \in DOMAIN Respuesta(cum_code, 1)

\* The identifiers the loop has to query, in the order of the loop.
PorConsultar ==
    IF lote.metodo = "buscar_multiple" THEN lote.orden
    ELSE LET NoOmitido(cum_str) == ~Omitido(cum_str)
         IN  SelectSeq([k \in DOMAIN lote.orden |-> Strip(lote.orden[k])], NoOmitido)

\* C17: when a batch run has finished, every identifier the loop had to
\* query was queried, in order, whatever the queries before it did; in
\* procesar_homologacion every row of the input has the homolog its own
\* identifier got, or 'SIN HOMOLOGO', or 'ERROR' when its query raised; in
\* buscar_multiple every identifier of the list has its own result, or the
\* error result of its exception, under its key.
C17_LoteCompleto ==
    (lote # None /\ lote.terminado)
    => /\ lote.consultas = PorConsultar
       /\ lote.metodo = "procesar_homologacion"
          => \A k \in DOMAIN lote.cums :
                /\ k \in DOMAIN lote.salida
                /\ IF Omitido(Strip(lote.cums[k]))
                   THEN lote.salida[k] = SinHomologo
                   ELSE IF Lanza(Strip(lote.cums[k]))
                   THEN lote.salida[k].cum_homologo \in {"ERROR", "SIN HOMOLOGO"}
                   ELSE lote.salida[k] = Entrada(Respuesta(Strip(lote.cums[k]), 1))
       /\ lote.metodo = "buscar_multiple"
          => \A k \in DOMAIN lote.cums :
                /\ lote.cums[k] \in DOMAIN lote.salida
                /\ lote.salida[lote.cums[k]]
                   = ResultadoMultiple(Respuesta(lote.cums[k], 5))

\* C17 witness: a finished run of procesar_homologacion on a loaded model
\* in which a query raised and a later identifier got its homolog.
C17_Testigo ==
    /\ lote # None /\ lote.terminado /\ lote.cargado
    /\ lote.metodo = "procesar_homologacion"
    /\ \E j, k \in DOMAIN lote.orden :
          /\ j < k
          /\ Lanza(Strip(lote.orden[j]))
          /\ \E f \in DOMAIN lote.cums :
                /\ lote.cums[f] = lote.orden[k]
                /\ lote.salida[f].cum_homologo = "D-2"

(***************************************************************************)
(* Properties of the threads (specification SpecConc).                     *)
(***************************************************************************)
Llamadas == IF conc = None THEN {} ELSE DOMAIN conc.llamadas

\* The object is exactly what one run of fit leaves, reference table set.
Completo(id) ==
    /\ conc.objetos[id] = conc.corridas[id]
    /\ conc.corridas[id].df_referencia # NoneDF

\* C14: whatever the interleaving of the calls of recomendar_homologos, a
\* call that has returned has the result the whole call gives on the
\* trained model it was made on, and the reference table, valid subset and
\* combo index of that model are what training left.
C14_LlamadasSinInterferencia ==
    \A k \in Llamadas :
        /\ conc.objetos[conc.llamadas[k].modelo] = conc.corridas[conc.llamadas[k].modelo]
        /\ conc.llamadas[k].terminada
           => conc.llamadas[k].resultado
              = recomendar_homologos(conc.corridas[conc.llamadas[k].modelo],
                                     conc.llamadas[k].cum_origen, 2, Medio).resultado

\* C14 witness: a call that started while another was under way has
\* returned recommendations.
C14_Testigo ==
    \E k \in Llamadas :
        /\ conc.llamadas[k].solapada /\ conc.llamadas[k].terminada
        /\ conc.llamadas[k].leidos = 3
        /\ conc.llamadas[k].resultado.recomendaciones # <<>>

\* C19: the model the service hands to queries is always a completely
\* trained object, and every attribute a call has read so far is that of
\* the one complete training run of the object it holds, whatever training
\* does meanwhile.
C19_ReemplazoAtomico ==
    conc # None
    => /\ conc.sistema_recomendacion # 0 => Completo(conc.sistema_recomendacion)
       /\ \A k \in Llamadas :
             /\ conc.corridas[conc.llamadas[k].modelo].df_referencia # NoneDF
             /\ conc.llamadas[k].leidos >= 1
                => conc.llamadas[k].visto.df_referencia
                   = conc.corridas[conc.llamadas[k].modelo].df_referencia
             /\ conc.llamadas[k].leidos >= 2
                => conc.llamadas[k].visto.combo_clusters
                   = conc.corridas[conc.llamadas[k].modelo].combo_clusters
             /\ conc.llamadas[k].leidos >= 3
                => conc.llamadas[k].visto.df_validos
                   = conc.corridas[conc.llamadas[k].modelo].df_validos

\* C19 witness: a call is between two of its reads and the service has
\* already been given another model than the one the call holds.
C19_Testigo ==
    \E k \in Llamadas :
        /\ ~conc.llamadas[k].terminada
        /\ conc.llamadas[k].leidos \in {1, 2}
        /\ conc.sistema_recomendacion # conc.llamadas[k].modelo

(***************************************************************************)
(* Properties of the combo clusters left by fit.                           *)
(***************************************************************************)
\* The place of the first valid row that carries the combo.
PrimeraCon(df_validos, combo) ==
    CHOOSE i \in DOMAIN df_validos :
        /\ df_validos[i].ATC_VIA_combo = combo
        /\ \A j \in DOMAIN df_validos : df_validos[j].ATC_VIA_combo = combo => i <= j

RECURSIVE SumaCuentas(_, _)
SumaCuentas(df_validos, combos) ==
    IF combos = {} THEN 0
    ELSE LET c == CHOOSE x \in combos : TRUE
         IN  Cuenta(df_validos, c) + SumaCuentas(df_validos, combos \ {c})

\* C21: after fit the combo clusters carry the ids 0..k-1 without gap or
\* repeat, the count of cluster i is at least that of cluster i+1, the counts
\* add up to the number of valid rows, and of two clusters of equal count the
\* lower id is that of the combo whose first row comes first in the input.
C21_ClustersPorCuentaYOrden ==
    modelo.df_validos # NoneDF =>
        LET cc     == modelo.combo_clusters
            dv     == modelo.df_validos
            combos == DOMAIN cc
        IN  /\ combos = Columna(dv, "ATC_VIA_combo")
            /\ {cc[c] : c \in combos} = 0..(Cardinality(combos) - 1)
            /\ \A c, d \in combos : cc[c] = cc[d] => c = d
            /\ \A c, d \in combos :
                 cc[c] < cc[d] => Cuenta(dv, c) >= Cuenta(dv, d)
            /\ SumaCuentas(dv, combos) = Len(dv)
            /\ \A c, d \in combos :
                 (Cuenta(dv, c) = Cuenta(dv, d)
                    /\ PrimeraCon(dv, c) < PrimeraCon(dv, d)) => cc[c] < cc[d]

(***************************************************************************)
(* Properties of the runs of the encoding service (specification SpecEnc). *)
(***************************************************************************)
EsCritica(var) == \E k \in DOMAIN variables_criticas : variables_criticas[k] = var

\* The frequency and probability columns a variable adds.
ColumnaFreq(var) == IF EsCritica(var) THEN var \o "_freq_validos" ELSE var \o "_freq"

ColumnaProb(var) == IF EsCritica(var) THEN var \o "_prob_validos" ELSE var \o "_prob"

\* C22: a run on a table that has a null in some row of a critical or
\* important text column completes without raising, and each such row gets
\* label -1 and frequency and probability 0 for that column.
C22_NuloNoAborta ==
    \A k \in DOMAIN enc.corridas :
        \A var \in Rango(Codificadas(enc.corridas[k].tabla)) :
            \A i \in DOMAIN enc.corridas[k].tabla :
                enc.corridas[k].tabla[i][var] = NuloDe(var)
                => /\ enc.corridas[k].retorno.excepcion = ""
                   /\ enc.corridas[k].retorno.df_training[i][var \o "_label"] = -1
                   /\ enc.corridas[k].retorno.df_training[i][ColumnaFreq(var)] = 0
                   /\ enc.corridas[k].retorno.df_training[i][ColumnaProb(var)] = Float(0, 1)

\* The run ended without raising.
Completa(corrida) == corrida.retorno.excepcion = ""

\* C23: when a run that completes follows one that completed on the same
\* service, self.encoders then holds exactly the entries of the variables of
\* the later table, each a new dict built from the later table alone, and
\* the dicts that were in self.encoders after the earlier run are as they
\* were.
C23_MapasNuevosEIndependientes ==
    \A k \in 2..Len(enc.corridas) :
        (Completa(enc.corridas[k - 1]) /\ Completa(enc.corridas[k]))
        => /\ DOMAIN enc.corridas[k].encoders = Rango(Codificadas(enc.corridas[k].tabla))
           /\ \A var \in DOMAIN enc.corridas[k].encoders :
                /\ enc.corridas[k].encoders[var] \notin Rango(enc.corridas[k - 1].encoders)
                /\ enc.corridas[k].objetos[enc.corridas[k].encoders[var]]
                   = EncoderDe(enc.corridas[k].tabla, var)
           /\ \A var \in DOMAIN enc.corridas[k - 1].encoders :
                enc.corridas[k].objetos[enc.corridas[k - 1].encoders[var]]
                = enc.corridas[k - 1].objetos[enc.corridas[k - 1].encoders[var]]

(***************************************************************************)
(* De-duplication in procesar_homologacion (specification SpecLote).       *)
(***************************************************************************)
\* The identifiers of the input column once stripped, those that are
\* skipped left out.
IdentificadoresDistintos ==
    {Strip(lote.cums[k]) : k \in DOMAIN lote.cums} \ {s \in {Strip(lote.cums[k]) : k \in DOMAIN lote.cums} : Omitido(s)}

\* C24: a finished run of procesar_homologacion has queried each distinct
\* identifier of the input column exactly once, two cells that differ only
\* by surrounding blanks being one identifier, and has one entry per
\* identifier, under the stripped text.
C24_UnaConsultaPorIdentificador ==
    (lote.metodo = "procesar_homologacion" /\ lote.terminado)
    => /\ \A s \in IdentificadoresDistintos : Veces(lote.consultas, s) = 1
       /\ Rango(lote.consultas) = IdentificadoresDistintos
       /\ DOMAIN lote.homologaciones = IdentificadoresDistintos

(***************************************************************************)
(* The lowest score of a candidate (specification Spec).                   *)
(***************************************************************************)
Lit081 == Float(81, 100)

\* C26: every candidate of a query that got past the three gates scores at
\* least 0.81 with the default weights; so when score_minimo is at most 0.81
\* and n is at least 1 the list is not empty and the threshold removes no
\* candidate.
C26_PisoDeLosCandidatos ==
    (ConParametros
     /\ FGe(Lit081, resultado.parametros.score_minimo)
     /\ resultado.parametros.n_recomendaciones >= 1)
    => /\ \A i \in DOMAIN Elegibles(PrimeraFila(resultado.cum_origen), resultado.cum_origen) :
             FGe(Score(PrimeraFila(resultado.cum_origen),
                       Elegibles(PrimeraFila(resultado.cum_origen),
                                 resultado.cum_origen)[i]).score_total,
                 Lit081)
       /\ Recs # <<>>
       /\ Len(Recs) = Min(resultado.parametros.n_recomendaciones,
                          Len(Elegibles(PrimeraFila(resultado.cum_origen),
                                        resultado.cum_origen)))

(***************************************************************************)
(* Which origins get which error (specification Spec).                     *)
(***************************************************************************)
CumsUnicos ==
    \A i, j \in DOMAIN modelo.df_referencia :
        modelo.df_referencia[i].CUM = modelo.df_referencia[j].CUM => i = j

ErrorEs(mensaje) == "error" \in DOMAIN resultado /\ resultado.error = mensaje

\* C27: when no two rows of the reference table share a cum, the
\* NO_CANDIDATES result goes only to a valid origin that is the one valid
\* row of its (ATC, route) pair; an invalid origin that is not refused for
\* its combo has at least one candidate; and a valid origin never gets
\* NO_VALID_COMBO.
C27_QuienRecibeCadaError ==
    (Consultado /\ Entrenado /\ CumsUnicos /\ FilasCum(resultado.cum_origen) # {})
    => /\ ErrorEs(MensajeSinCandidatos(PrimeraFila(resultado.cum_origen)))
          => /\ PrimeraFila(resultado.cum_origen).VALIDO = 1
             /\ ValidasMismoCombo(PrimeraFila(resultado.cum_origen))
                = <<PrimeraFila(resultado.cum_origen)>>
       /\ (PrimeraFila(resultado.cum_origen).VALIDO = 0
           /\ ~ErrorEs(MensajeSinCombo(PrimeraFila(resultado.cum_origen))))
          => /\ "candidatos_evaluados" \in DOMAIN resultado
             /\ resultado.candidatos_evaluados >= 1
       /\ PrimeraFila(resultado.cum_origen).VALIDO = 1
          => ~ErrorEs(MensajeSinCombo(PrimeraFila(resultado.cum_origen)))

\* C27 witness: in a table of distinct cums, a valid origin alone in its
\* pair got NO_CANDIDATES while the table has other valid rows.
C27_Testigo ==
    /\ Consultado /\ Entrenado /\ CumsUnicos
    /\ FilasCum(resultado.cum_origen) # {}
    /\ ErrorEs(MensajeSinCandidatos(PrimeraFila(resultado.cum_origen)))
    /\ Len(modelo.df_validos) >= 2

(***************************************************************************)
(* The lists of one cum for different n (specification Spec).              *)
(***************************************************************************)
\* C28: on the same model, for the same cum and threshold, the list of a
\* query with n1 is the first n1 entries (all, if there are fewer) of the
\* list of a query with n2, whenever 0 <= n1 <= n2; so the one entry that n =
\* 1 gives is the first entry that n = 5 gives.
C28_PrefijoSegunN ==
    [][(/\ ConParametros /\ ConParametros'
        /\ modelo' = modelo
        /\ resultado'.cum_origen = resultado.cum_origen
        /\ resultado'.parametros.score_minimo = resultado.parametros.score_minimo
        /\ 0 <= resultado'.parametros.n_recomendaciones
        /\ resultado'.parametros.n_recomendaciones <= resultado.parametros.n_recomendaciones)
       => resultado'.recomendaciones
          = SubSeq(resultado.recomendaciones, 1,
                   Min(resultado'.parametros.n_recomendaciones,
                       Len(resultado.recomendaciones)))]_vars

\* C28 witness: a query with n = 1 returned one entry where the same query
\* with n = 5 returns two different entries.
C28_Testigo ==
    /\ ConParametros
    /\ resultado.parametros.n_recomendaciones = 1
    /\ Len(Recs) = 1
    /\ \E r \in {recomendar_homologos(modelo, resultado.cum_origen, 5,
                                      resultado.parametros.score_minimo).resultado} :
          /\ Len(r.recomendaciones) = 2
          /\ r.recomendaciones[1] # r.recomendaciones[2]

(***************************************************************************)
(* The reported score and the order of the list (specification             *)
(* SpecRedondeo).                                                          *)
(***************************************************************************)
\* The float a reported score stands for, and the unrounded score of an
\* entry of the list (the cums of the table are distinct).
Reportado(e) == Float(e.score_similitud, 10000)

SinRedondear(e) ==
    Score(PrimeraFila(resultado.cum_origen), PrimeraFila(e.cum)).score_total

\* C29: the score reported for every returned entry is at least the
\* score_minimo of the query, and no entry stands ahead of an entry whose
\* unrounded score is strictly higher.
C29_RedondeoAntesDeOrdenar ==
    ConParametros =>
        /\ \A i \in DOMAIN Recs :
              FGe(Reportado(Recs[i]), resultado.parametros.score_minimo)
        /\ \A i, j \in DOMAIN Recs :
              i < j => ~FLt(SinRedondear(Recs[i]), SinRedondear(Recs[j]))

(***************************************************************************)
(* The validity columns of the encoded table (specification Spec).         *)
(***************************************************************************)
Codificado == df_training # NoneDF

\* C30: in the encoded table every row with VALIDO = 1 has the three
\* critical is-valid flags at 1 and the three valid-set probabilities above
\* zero, a validity score of 3 and the ideal flag at 1; every row has a
\* validity score in 0..3 and the ideal flag at 1 exactly when the score is 3.
C30_ValidezDeLasFilas ==
    Codificado =>
        \A i \in DOMAIN df_training :
            /\ df_training[i].VALIDO = 1 =>
                  /\ \A k \in DOMAIN variables_criticas :
                        /\ df_training[i][variables_criticas[k] \o "_es_valido"] = 1
                        /\ FLt(Cero, df_training[i][variables_criticas[k] \o "_prob_validos"])
                  /\ df_training[i].score_validez_critica = 3
                  /\ df_training[i].es_ideal_homologacion = 1
            /\ df_training[i].score_validez_critica \in 0..3
            /\ df_training[i].es_ideal_homologacion \in {0, 1}
            /\ df_training[i].es_ideal_homologacion = 1
                  <=> df_training[i].score_validez_critica = 3

\* C30 witness: an encoded table with a valid row and with a row of which
\* some but not all critical values occur among the valid rows.
C30_Testigo ==
    /\ Codificado
    /\ \E i \in DOMAIN df_training : df_training[i].VALIDO = 1
    /\ \E j \in DOMAIN df_training :
          /\ df_training[j].VALIDO = 0
          /\ df_training[j].score_validez_critica \in {1, 2}
          /\ df_training[j].es_ideal_homologacion = 0

====
